---- MODULE Spec2Model ----
(***************************************************************************)
(* Contacts module of the chat application: the contacts table with its    *)
(* row-level security policies and triggers, and the REST handlers that    *)
(* read and write it on behalf of the authenticated caller.                *)
(*                                                                         *)
(* A string is a sequence of one-character strings, so that trim() and the *)
(* truthiness test of the handlers are computed, not assumed.  The absent  *)
(* value (undefined in a request body, NULL in a column) is Null.          *)
(***************************************************************************)
EXTENDS Integers, Sequences, FiniteSets, TLC

\* ------------------------------------------------------------------ bounds

\* Number of contact ids the store hands out in one behaviour.
MaxIds == 2

\* The group-membership requests that are between their two statements at a
\* time.
MaxInFlight == 1

\* The calls of handleDeleteContact and handleSaveContact on the contacts
\* page that issue a statement, in one behaviour.
MaxCalls == 2

\* The calls of handleSave of one dialog that issue a request, in one
\* behaviour.
MaxSaves == 1

\* ------------------------------------------------------------------ values

Users == {"u1", "u2"}
NoUser == "nobody"
\* A request carries either the session cookie of an account or none.
Sessions == Users \cup {NoUser}

Null == <<"NULL">>

Ids == 1 .. MaxIds
NoId == 0

\* JavaScript !v for a value that is a string, null or undefined.
Falsy(v) == v = Null \/ v = <<>>

IsSpace(c) == c = " "

RECURSIVE TrimStart(_)
TrimStart(s) ==
  IF s = <<>> THEN s
  ELSE IF IsSpace(Head(s)) THEN TrimStart(Tail(s)) ELSE s

RECURSIVE TrimEnd(_)
TrimEnd(s) ==
  IF s = <<>> THEN s
  ELSE IF IsSpace(s[Len(s)]) THEN TrimEnd(SubSeq(s, 1, Len(s) - 1)) ELSE s

\* String.prototype.trim
Trim(s) == TrimEnd(TrimStart(s))

\* Mutant of TrimOrNull: value?.trim(), without the || null.
TrimKeepEmpty(v) == IF v = Null THEN Null ELSE Trim(v)

\* value?.trim() || null   (the optional string columns)
TrimOrNull(v) ==
  IF v = Null THEN Null
  ELSE IF Trim(v) = <<>> THEN Null ELSE Trim(v)

\* A tags value of a request body that is not an array.
NotAList == <<"NOTLIST">>

\* tags && Array.isArray(tags) ? tags : null   (a tag list is a sequence of tags;
\* the empty array is truthy)
TagsOrNull(v) == IF v = Null \/ v = NotAList THEN Null ELSE v

\* ------------------------------------------------------------------ state

VARIABLES
  contacts,        \* the rows of table contacts
  nextId,          \* the next id gen_random_uuid() hands out
  chat_groups,     \* the rows of table chat_groups (id, owner_id, group_name)
  contact_groups,  \* the rows of table contact_groups (id, contact_id, group_id)
  group_members,   \* the rows of table group_members (group_id, user_id)
  last,            \* the request answered last, with its response
  dialog,          \* the state of each mounted GroupManagementDialog
  page,            \* the state of the mounted ContactsPage
  inflight         \* the group-membership requests between their statements

vars ==
  <<contacts, nextId, chat_groups, contact_groups, group_members, last, dialog,
    page, inflight>>

\* ------------------------------------------------------------------ identity

\* Mutant of getUser: a request without a session is served as a default account.
getUserOrDefault(s) == IF s \in Users THEN s ELSE "u1"

\* supabase.auth.getUser(): the account of the request's session, if any.
getUser(s) == IF s \in Users THEN s ELSE NoUser

\* Mutant of auth_uid: every client shares the SQL session of one account.
auth_uid_shared(s) == IF s \in Users THEN "u1" ELSE NoUser

\* auth.uid() of the SQL session the request's client opens.
auth_uid(s) == IF s \in Users THEN s ELSE NoUser

\* ------------------------------------------------------------------ table contacts

\* Row-level security policies of contacts.
RlsSelectContacts(s, r) == auth_uid(s) = r.owner_id

RlsInsertContacts(s, r) == auth_uid(s) = r.owner_id \/ r.owner_id = NoUser

RlsUpdateContacts(s, r) == auth_uid(s) = r.owner_id

RlsDeleteContacts(s, r) == auth_uid(s) = r.owner_id

\* BEFORE INSERT trigger.
set_contact_owner_id(s, new) ==
  IF new.owner_id = NoUser THEN [new EXCEPT !.owner_id = auth_uid(s)] ELSE new

\* Column defaults of an inserted row: id, and owner_id when none is supplied.
ContactDefaults(s, payload) ==
  [payload EXCEPT !.id = nextId,
                  !.owner_id = IF payload.owner_id = NoUser THEN auth_uid(s)
                               ELSE payload.owner_id]

\* Mutant of UniqueOwnerPhone: the table has no such constraint.
UniqueOwnerPhoneMissing(rows, new) == TRUE

\* UNIQUE(owner_id, phone_number)
UniqueOwnerPhone(rows, new) ==
  \A r \in rows : ~(r.owner_id = new.owner_id /\ r.phone_number = new.phone_number)

NoError == "ok"
\* A failure of the database that is none of the cases the handlers name.
DbFault == "XX000"

\* INSERT INTO contacts ... RETURNING *, through the client of session s.
InsertContact(s, payload, fault) ==
  LET new == set_contact_owner_id(s, ContactDefaults(s, payload))
      err == IF fault THEN DbFault
             ELSE IF ~RlsInsertContacts(s, new) THEN "42501"
             ELSE IF new.owner_id = NoUser \/ new.phone_number = Null
                     \/ new.custom_name = Null THEN "23502"
             ELSE IF ~UniqueOwnerPhone(contacts, new) THEN "23505"
             ELSE NoError
  IN [error |-> err,
      data  |-> IF err = NoError THEN {new} ELSE {},
      store |-> IF err = NoError THEN contacts \cup {new} ELSE contacts]

\* The rows a SELECT on contacts sees through the client of session s.
VisibleContacts(s) == {r \in contacts : RlsSelectContacts(s, r)}

\* PostgREST .single(): exactly one row, or error PGRST116.
Single(res) ==
  IF res.error # NoError THEN res
  ELSE IF Cardinality(res.data) = 1 THEN res
  ELSE [res EXCEPT !.error = "PGRST116"]

\* A row with the columns of a payload assigned.
Assign(r, payload) ==
  [c \in DOMAIN r |-> IF c \in DOMAIN payload THEN payload[c] ELSE r[c]]

\* UPDATE contacts SET payload WHERE id = id AND owner_id = owner RETURNING *,
\* through the client of session s.
UpdateContact(s, payload, id, owner, fault) ==
  LET hit  == {r \in contacts :
                 RlsUpdateContacts(s, r) /\ r.id = id /\ r.owner_id = owner}
      new  == {Assign(r, payload) : r \in hit}
      err  == IF fault THEN DbFault
              ELSE IF \E r \in new : ~RlsUpdateContacts(s, r) THEN "42501"
              ELSE IF \E r \in new : r.custom_name = Null \/ r.phone_number = Null
                   THEN "23502"
              ELSE NoError
  IN [error |-> err,
      data  |-> IF err = NoError THEN {r \in new : RlsSelectContacts(s, r)} ELSE {},
      store |-> IF err = NoError THEN (contacts \ hit) \cup new ELSE contacts]

\* Mutant of DeleteContact: the statement is scoped by id alone and runs with
\* a client that bypasses row-level security.
DeleteContactAnyOwner(s, id, owner, fault) ==
  LET hit == {r \in contacts : r.id = id}
      err == IF fault THEN DbFault ELSE NoError
  IN [error |-> err,
      data  |-> {},
      store |-> IF err = NoError THEN contacts \ hit ELSE contacts]

\* DELETE FROM contacts WHERE id = id AND owner_id = owner, through the client
\* of session s.
DeleteContact(s, id, owner, fault) ==
  LET hit == {r \in contacts :
                RlsDeleteContacts(s, r) /\ r.id = id /\ r.owner_id = owner}
      err == IF fault THEN DbFault ELSE NoError
  IN [error |-> err,
      data  |-> {},
      store |-> IF err = NoError THEN contacts \ hit ELSE contacts]

\* Mutant of CascadeContacts: the reference to contacts does not cascade.
CascadeContactsMissing(rows, memberships) == memberships

\* contact_groups.contact_id REFERENCES contacts(id) ON DELETE CASCADE
CascadeContacts(rows, memberships) ==
  {m \in memberships : \E r \in rows : r.id = m.contact_id}

\* ------------------------------------------------------------------ queries

\* The collation of column custom_name is the default of the database, which
\* the migrations do not set: code-point order (collation "C") or the
\* linguistic order of the locale ("en").
Collations == {"C", "en"}

\* The characters in code-point order.
CodePoints == <<" ", "1", "2", "A", "B", "a", "b", "c", "e", "t", "w">>

\* The characters without their case in the order of the locale.
Alphabet == <<" ", "1", "2", "a", "b", "c", "e", "t", "w">>

CharRank(order, c) == CHOOSE i \in 1 .. Len(order) : order[i] = c

LowerChar(c) == IF c = "A" THEN "a" ELSE IF c = "B" THEN "b" ELSE c

Lower(str) == [i \in DOMAIN str |-> LowerChar(str[i])]

\* a is at or before b, character by character in the given order: the first
\* character that differs decides, and a prefix comes first.
RECURSIVE LexLeq(_, _, _)
LexLeq(order, a, b) ==
  IF a = <<>> THEN TRUE
  ELSE IF b = <<>> THEN FALSE
  ELSE IF Head(a) = Head(b) THEN LexLeq(order, Tail(a), Tail(b))
  ELSE CharRank(order, Head(a)) < CharRank(order, Head(b))

\* Of two strings that differ in case only, the one with the lower-case
\* letter at the first difference comes first.
RECURSIVE CaseLeq(_, _)
CaseLeq(a, b) ==
  IF a = <<>> THEN TRUE
  ELSE IF Head(a) = Head(b) THEN CaseLeq(Tail(a), Tail(b))
  ELSE Head(a) = LowerChar(Head(a))

\* a sorts at or before b: by code points, or by the letters without their
\* case and, between strings that differ in case only, by the case.
StrLeq(coll, a, b) ==
  IF coll = "C" THEN LexLeq(CodePoints, a, b)
  ELSE IF Lower(a) # Lower(b) THEN LexLeq(Alphabet, Lower(a), Lower(b))
  ELSE CaseLeq(a, b)

\* ascending, nullsFirst: false
NameLeq(coll, a, b) ==
  IF b = Null THEN TRUE ELSE IF a = Null THEN FALSE ELSE StrLeq(coll, a, b)

\* The rows in any order: what the query would return without its order clause.
AnyOrder(rows) ==
  {sq \in [1 .. Cardinality(rows) -> rows] :
     \A i, j \in DOMAIN sq : i # j => sq[i] # sq[j]}

\* .order("custom_name", { ascending: true, nullsFirst: false }): the orders in
\* which the database may return the rows (rows of equal name in any order).
OrderByCustomName(rows) ==
  {sq \in [1 .. Cardinality(rows) -> rows] :
     /\ \A i, j \in DOMAIN sq : i # j => sq[i] # sq[j]
     /\ \E coll \in Collations :
          \A i, j \in DOMAIN sq :
            i < j => NameLeq(coll, sq[i].custom_name, sq[j].custom_name)}

\* str LIKE pat: in the pattern % stands for any string and _ for any one
\* character.
RECURSIVE LikeMatch(_, _)
LikeMatch(str, pat) ==
  IF pat = <<>> THEN str = <<>>
  ELSE IF Head(pat) = "%"
  THEN LikeMatch(str, Tail(pat)) \/ (str # <<>> /\ LikeMatch(Tail(str), pat))
  ELSE IF str = <<>> THEN FALSE
  ELSE /\ Head(pat) = "_" \/ Head(pat) = Head(str)
       /\ LikeMatch(Tail(str), Tail(pat))

\* column.ilike.%q%: the query is put into the pattern as it is (NULL ILIKE
\* anything is not true).
ILikeContains(col, q) ==
  /\ col # Null
  /\ LikeMatch(Lower(col), <<"%">> \o Lower(q) \o <<"%">>)

\* The .or(...) filter of search.
MatchesQuery(r, q) ==
  \/ ILikeContains(r.custom_name, q)
  \/ ILikeContains(r.whatsapp_name, q)
  \/ ILikeContains(r.phone_number, q)
  \/ ILikeContains(r.email, q)
  \/ ILikeContains(r.company, q)

\* .contains("tags", [tag]): tags @> ARRAY[tag]
HasTag(r, tag) ==
  r.tags # Null /\ \E i \in DOMAIN r.tags : r.tags[i] = tag

\* ------------------------------------------------------------------ requests

NoBody ==
  [phoneNumber |-> Null, customName |-> Null, whatsappName |-> Null,
   email |-> Null, company |-> Null, position |-> Null, address |-> Null,
   notes |-> Null, tags |-> Null, owner_id |-> NoUser]

\* The request bodies sent to POST /api/contacts.
CreateBodies ==
  { [NoBody EXCEPT !.phoneNumber = <<"1">>, !.customName = <<"a">>],
    [NoBody EXCEPT !.phoneNumber = <<"1", " ">>, !.customName = <<" ", "a">>,
                   !.email = <<" ">>, !.tags = NotAList, !.owner_id = "u1"],
    [NoBody EXCEPT !.phoneNumber = <<"2">>, !.customName = <<"B">>,
                   !.whatsappName = <<"w", " ">>, !.email = <<"e">>,
                   !.company = <<"c">>, !.tags = <<"t">>],
    [NoBody EXCEPT !.customName = <<"a">>],
    [NoBody EXCEPT !.phoneNumber = <<>>, !.customName = <<"a">>],
    [NoBody EXCEPT !.phoneNumber = <<"1">>],
    [NoBody EXCEPT !.phoneNumber = <<"1">>, !.customName = <<>>],
    [NoBody EXCEPT !.phoneNumber = <<"1">>, !.customName = <<" ">>] }

\* The request bodies sent to PUT /api/contacts/{id}.
UpdateBodies ==
  { [NoBody EXCEPT !.customName = <<"B", " ">>, !.phoneNumber = <<"2">>,
                   !.notes = <<" ">>, !.tags = <<>>, !.owner_id = "u2"],
    NoBody,
    [NoBody EXCEPT !.customName = <<>>, !.email = <<"e">>],
    [NoBody EXCEPT !.customName = <<" ">>] }

\* The q and tag parameters sent to GET /api/contacts/search.
Queries == {<<>>, <<"b">>, <<"_">>}
\* The tag parameter when the URL has none.
NoTag == "(absent)"
TagParams == {NoTag, "t"}

\* The group ids sent to /api/groups/{id}/members ("g9" is no group).
GroupIds == {"g1", "g2", "g9"}
NoGroup == "(none)"

\* A body of POST /api/groups/{id}/members without userIds.
NoUserIds == <<NoId>>

\* The userIds sent to POST /api/groups/{id}/members.
UserIdLists == {NoUserIds, <<>>, <<1>>, <<1, 1>>, <<1, 2>>}

\* A request as recorded with its response: what was sent (kind, session, id,
\* body, q, tag, group, userIds), whether the database failed on it (fault),
\* what was answered (status, contacts, count, members), the accesses the handler
\* made in order (trace), and the tables as the request found them.
Req(kind, s) ==
  [kind |-> kind, session |-> s, id |-> NoId, body |-> NoBody, q |-> <<>>,
   tag |-> NoTag, group |-> NoGroup, userIds |-> NoUserIds,
   fault |-> FALSE, status |-> 0, error |-> NoError, contacts |-> <<>>,
   count |-> 0, members |-> {},
   trace |-> <<>>, before |-> contacts, groups |-> chat_groups,
   beforeGroups |-> [contact_groups |-> contact_groups,
                     group_members |-> group_members]]

Unauthorized(req) == [req EXCEPT !.status = 401, !.trace = <<"auth.getUser">>]

\* ------------------------------------------------------------------ contacts API

\* The row POST inserts.
CreatePayload(body) ==
  [id |-> NoId, owner_id |-> NoUser,
   phone_number |-> Trim(body.phoneNumber),
   custom_name |-> Trim(body.customName),
   whatsapp_name |-> TrimOrNull(body.whatsappName),
   email |-> TrimOrNull(body.email),
   company |-> TrimOrNull(body.company),
   position |-> TrimOrNull(body.position),
   address |-> TrimOrNull(body.address),
   notes |-> TrimOrNull(body.notes),
   tags |-> TagsOrNull(body.tags)]

\* Mutant of UpdatePayload: PUT also assigns the phone number of the body.
UpdatePayloadWithPhone(body) ==
  [phone_number |-> Trim(body.phoneNumber),
   custom_name |-> Trim(body.customName),
   whatsapp_name |-> TrimOrNull(body.whatsappName),
   email |-> TrimOrNull(body.email),
   company |-> TrimOrNull(body.company),
   position |-> TrimOrNull(body.position),
   address |-> TrimOrNull(body.address),
   notes |-> TrimOrNull(body.notes),
   tags |-> TagsOrNull(body.tags)]

\* The columns PUT assigns.
UpdatePayload(body) ==
  [custom_name |-> Trim(body.customName),
   whatsapp_name |-> TrimOrNull(body.whatsappName),
   email |-> TrimOrNull(body.email),
   company |-> TrimOrNull(body.company),
   position |-> TrimOrNull(body.position),
   address |-> TrimOrNull(body.address),
   notes |-> TrimOrNull(body.notes),
   tags |-> TagsOrNull(body.tags)]

\* Mutant of ListContacts: the query is not scoped to the caller and runs with
\* a client that bypasses row-level security.
ListContactsUnscoped(s, user) == contacts

\* The rows GET /api/contacts selects.
ListContacts(s, user) == {r \in VisibleContacts(s) : r.owner_id = user}

\* Mutant of GetContact: the query is scoped by id alone and runs with a
\* client that bypasses row-level security.
GetContactAnyOwner(s, user, id) == {r \in contacts : r.id = id}

\* The rows GET /api/contacts/{id} selects.
GetContact(s, user, id) ==
  {r \in VisibleContacts(s) : r.id = id /\ r.owner_id = user}

\* The rows GET /api/contacts/search selects.
SearchContacts(s, user, q, tag) ==
  {r \in VisibleContacts(s) :
     /\ r.owner_id = user
     /\ (q # <<>> => MatchesQuery(r, q))
     /\ (~(tag = NoTag \/ tag = "") => HasTag(r, tag))}

\* A SELECT of the given rows.
Select(rows, fault) ==
  [error |-> IF fault THEN DbFault ELSE NoError,
   data  |-> IF fault THEN {} ELSE rows,
   store |-> contacts]

\* The one row of a .single() result, as the response carries it.
One(rows) == <<CHOOSE r \in rows : TRUE>>

Frame == UNCHANGED <<chat_groups, group_members, dialog, page, inflight>>

\* The store a request leaves as it found it.
NoWrite == UNCHANGED <<contacts, nextId, contact_groups>> /\ Frame

\* GET /api/contacts
ContactsGET(s) ==
  LET user == getUser(s)
      req  == Req("list", s)
  IN /\ IF user = NoUser
        THEN last' = Unauthorized(req)
        ELSE \E fault \in BOOLEAN :
               LET res  == Select(ListContacts(s, user), fault)
                   done == [req EXCEPT !.fault = fault,
                                       !.trace = <<"auth.getUser", "contacts.select">>]
               IN IF res.error # NoError
                  THEN last' = [done EXCEPT !.status = 500]
                  ELSE \E sq \in OrderByCustomName(res.data) :
                         last' = [done EXCEPT !.status = 200, !.contacts = sq,
                                              !.count = Len(sq)]
     /\ NoWrite

\* POST /api/contacts
ContactsPOST(s) ==
  LET user == getUser(s)
  IN /\ IF user = NoUser
        THEN last' = Unauthorized(Req("create", s)) /\ NoWrite
        ELSE \E body \in CreateBodies :
               LET req == [Req("create", s) EXCEPT !.body = body]
               IN IF Falsy(body.phoneNumber) \/ Falsy(body.customName)
                  THEN /\ last' = [req EXCEPT !.status = 400,
                                              !.trace = <<"auth.getUser">>]
                       /\ NoWrite
                  ELSE \E fault \in BOOLEAN :
                         LET res  == Single(InsertContact(s, CreatePayload(body), fault))
                             done == [req EXCEPT !.fault = fault,
                                        !.trace = <<"auth.getUser", "contacts.insert">>]
                         IN /\ res.error = NoError => nextId <= MaxIds
                            /\ contacts' = res.store
                            /\ nextId' = IF res.store # contacts THEN nextId + 1
                                         ELSE nextId
                            /\ last' = IF res.error = "23505"
                                       THEN [done EXCEPT !.status = 409]
                                       ELSE IF res.error # NoError
                                       THEN [done EXCEPT !.status = 500]
                                       ELSE [done EXCEPT !.status = 200,
                                                         !.contacts = One(res.data)]
                            /\ UNCHANGED contact_groups /\ Frame

\* GET /api/contacts/{id}
ContactByIdGET(s) ==
  LET user == getUser(s)
  IN /\ IF user = NoUser
        THEN last' = Unauthorized(Req("get", s))
        ELSE \E id \in Ids, fault \in BOOLEAN :
               LET res  == Single(Select(GetContact(s, user, id), fault))
                   done == [Req("get", s) EXCEPT !.id = id, !.fault = fault,
                              !.trace = <<"auth.getUser", "contacts.select">>]
               IN last' = IF res.error = "PGRST116" THEN [done EXCEPT !.status = 404]
                          ELSE IF res.error # NoError THEN [done EXCEPT !.status = 500]
                          ELSE [done EXCEPT !.status = 200, !.contacts = One(res.data)]
     /\ NoWrite

\* PUT /api/contacts/{id}
ContactByIdPUT(s) ==
  LET user == getUser(s)
  IN IF user = NoUser
     THEN last' = Unauthorized(Req("update", s)) /\ NoWrite
     ELSE \E id \in Ids, body \in UpdateBodies :
            LET req == [Req("update", s) EXCEPT !.id = id, !.body = body]
            IN IF Falsy(body.customName)
               THEN /\ last' = [req EXCEPT !.status = 400,
                                           !.trace = <<"auth.getUser">>]
                    /\ NoWrite
               ELSE \E fault \in BOOLEAN :
                      LET res  == Single(UpdateContact(s, UpdatePayload(body), id,
                                                       user, fault))
                          done == [req EXCEPT !.fault = fault,
                                     !.trace = <<"auth.getUser", "contacts.update">>]
                      IN /\ contacts' = res.store
                         /\ last' = IF res.error # NoError
                                    THEN [done EXCEPT !.status = 500]
                                    ELSE [done EXCEPT !.status = 200,
                                                      !.contacts = One(res.data)]
                         /\ UNCHANGED <<nextId, contact_groups>> /\ Frame

\* DELETE /api/contacts/{id}
ContactByIdDELETE(s) ==
  LET user == getUser(s)
  IN IF user = NoUser
     THEN last' = Unauthorized(Req("delete", s)) /\ NoWrite
     ELSE \E id \in Ids, fault \in BOOLEAN :
            LET res  == DeleteContact(s, id, user, fault)
                done == [Req("delete", s) EXCEPT !.id = id, !.fault = fault,
                           !.trace = <<"auth.getUser", "contacts.delete">>]
            IN /\ contacts' = res.store
               /\ contact_groups' = CascadeContacts(res.store, contact_groups)
               /\ last' = IF res.error # NoError THEN [done EXCEPT !.status = 500]
                          ELSE [done EXCEPT !.status = 200]
               /\ UNCHANGED nextId /\ Frame

\* GET /api/contacts/search
SearchGET(s) ==
  LET user == getUser(s)
  IN /\ IF user = NoUser
        THEN last' = Unauthorized(Req("search", s))
        ELSE \E q \in Queries, tag \in TagParams, fault \in BOOLEAN :
               LET res  == Select(SearchContacts(s, user, q, tag), fault)
                   done == [Req("search", s) EXCEPT !.q = q, !.tag = tag,
                              !.fault = fault,
                              !.trace = <<"auth.getUser", "contacts.select">>]
               IN IF res.error # NoError
                  THEN last' = [done EXCEPT !.status = 500]
                  ELSE \E sq \in OrderByCustomName(res.data) :
                         last' = [done EXCEPT !.status = 200, !.contacts = sq,
                                              !.count = Len(sq)]
     /\ NoWrite

\* ------------------------------------------------------------------ group-membership API

\* Row-level security policy of contact_groups for SELECT.
RlsSelectContactGroups(s, m) ==
  \E r \in contacts : r.id = m.contact_id /\ r.owner_id = auth_uid(s)

\* Mutant of OwnedGroup: the group is looked up by its id alone.
OwnedGroupAnyOwner(user, groupId, fault) ==
  IF fault THEN {} ELSE {g \in chat_groups : g.id = groupId}

\* "Verify group ownership": the chat_groups row the handlers select with
\* .single(); data is null when no row matches or the statement fails.
OwnedGroup(user, groupId, fault) ==
  IF fault THEN {}
  ELSE {g \in chat_groups : g.id = groupId /\ g.owner_id = user}

\* contact_groups joined with contacts, as GET members selects and formats it.
MemberList(s, groupId) ==
  LET OrEmpty(v) == IF v = Null THEN <<>> ELSE v
      Member(m) ==
        LET c == CHOOSE r \in contacts : r.id = m.contact_id
        IN [member_id |-> m.contact_id,
            user_id |-> OrEmpty(c.phone_number),
            custom_name |-> OrEmpty(c.custom_name),
            whatsapp_name |-> OrEmpty(c.whatsapp_name),
            unread_count |-> 0]
  IN {Member(m) : m \in {x \in contact_groups :
                           RlsSelectContactGroups(s, x) /\ x.group_id = groupId}}

\* The rows POST members inserts.
MemberRows(groupId, userIds) ==
  [i \in DOMAIN userIds |-> [group_id |-> groupId, user_id |-> userIds[i]]]

\* The unique constraint of group_members on (group_id, user_id) which the
\* handler relies on (the table is declared outside this module).
UniqueGroupMember(rows, new) == new \notin rows

\* supabase.from('group_members').insert(members): one plain INSERT, which
\* fails as a whole on a pair that is already there or that it holds twice.
InsertMembers(rows, fault) ==
  LET err == IF fault THEN DbFault
             ELSE IF \/ \E i \in DOMAIN rows :
                          ~UniqueGroupMember(group_members, rows[i])
                     \/ \E i, j \in DOMAIN rows : i # j /\ rows[i] = rows[j]
             THEN "23505"
             ELSE NoError
  IN [error |-> err,
      store |-> IF err = NoError
                THEN group_members \cup {rows[i] : i \in DOMAIN rows}
                ELSE group_members]

\* DELETE FROM group_members WHERE group_id = groupId AND user_id = userId
DeleteMember(groupId, userId, fault) ==
  [error |-> IF fault THEN DbFault ELSE NoError,
   store |-> IF fault THEN group_members
             ELSE {m \in group_members :
                     ~(m.group_id = groupId /\ m.user_id = userId)}]

NoGroupWrite ==
  UNCHANGED <<contacts, nextId, chat_groups, contact_groups, dialog, page>>

\* A group-membership request between its two statements: the ownership
\* select has answered with the group and the handler awaits its second
\* statement.  groups holds chat_groups as the ownership select found it.
Suspended(kind, s, groupId, userIds, id) ==
  [kind |-> kind, session |-> s, group |-> groupId, userIds |-> userIds,
   id |-> id, groups |-> chat_groups]

\* The handler goes on to its second statement when the ownership select has
\* returned a row.
Suspend(p) ==
  /\ Cardinality(inflight) < MaxInFlight
  /\ p \notin inflight
  /\ inflight' = inflight \cup {p}
  /\ UNCHANGED <<last, group_members>>

\* The request p as recorded when its second statement answers.
Resumed(p, second, fault) ==
  [Req(p.kind, p.session) EXCEPT
     !.group = p.group, !.userIds = p.userIds, !.id = p.id, !.fault = fault,
     !.groups = p.groups,
     !.trace = <<"auth.getUser", "chat_groups.select", second>>]

\* GET /api/groups/{id}/members, up to the answer of the ownership select.
GroupMembersGET(s) ==
  LET user == getUser(s)
  IN /\ IF user = NoUser
        THEN /\ last' = Unauthorized(Req("members", s))
             /\ UNCHANGED <<inflight, group_members>>
        ELSE \E groupId \in GroupIds, fault1 \in BOOLEAN :
               LET req == [Req("members", s) EXCEPT !.group = groupId]
               IN IF OwnedGroup(user, groupId, fault1) = {}
                  THEN /\ last' = [req EXCEPT !.status = 404, !.fault = fault1,
                                     !.trace = <<"auth.getUser",
                                                 "chat_groups.select">>]
                       /\ UNCHANGED <<inflight, group_members>>
                  ELSE Suspend(Suspended("members", s, groupId, NoUserIds, NoId))
     /\ NoGroupWrite

\* GET /api/groups/{id}/members, from the answer of the select on
\* contact_groups.
GroupMembersGETSelect(s) ==
  /\ \E p \in inflight, fault \in BOOLEAN :
       /\ p.kind = "members" /\ p.session = s
       /\ inflight' = inflight \ {p}
       /\ last' = IF fault
                  THEN [Resumed(p, "contact_groups.select", fault) EXCEPT
                          !.status = 500]
                  ELSE [Resumed(p, "contact_groups.select", fault) EXCEPT
                          !.status = 200, !.members = MemberList(s, p.group)]
  /\ UNCHANGED group_members /\ NoGroupWrite

\* POST /api/groups/{id}/members, up to the answer of the ownership select.
GroupMembersPOST(s) ==
  LET user == getUser(s)
  IN /\ IF user = NoUser
        THEN /\ last' = Unauthorized(Req("addMembers", s))
             /\ UNCHANGED <<inflight, group_members>>
        ELSE \E groupId \in GroupIds, userIds \in UserIdLists :
               LET req == [Req("addMembers", s) EXCEPT !.group = groupId,
                                                       !.userIds = userIds]
               IN IF userIds = NoUserIds \/ Len(userIds) = 0
                  THEN /\ last' = [req EXCEPT !.status = 400,
                                     !.trace = <<"auth.getUser">>]
                       /\ UNCHANGED <<inflight, group_members>>
                  ELSE \E fault1 \in BOOLEAN :
                         IF OwnedGroup(user, groupId, fault1) = {}
                         THEN /\ last' = [req EXCEPT !.status = 404,
                                            !.fault = fault1,
                                            !.trace = <<"auth.getUser",
                                                        "chat_groups.select">>]
                              /\ UNCHANGED <<inflight, group_members>>
                         ELSE Suspend(Suspended("addMembers", s, groupId,
                                                userIds, NoId))
     /\ NoGroupWrite

\* POST /api/groups/{id}/members, from the answer of the insert into
\* group_members.
GroupMembersPOSTInsert(s) ==
  /\ \E p \in inflight, fault \in BOOLEAN :
       LET res  == InsertMembers(MemberRows(p.group, p.userIds), fault)
           done == Resumed(p, "group_members.insert", fault)
       IN /\ p.kind = "addMembers" /\ p.session = s
          /\ inflight' = inflight \ {p}
          /\ group_members' = res.store
          /\ last' = IF res.error # NoError THEN [done EXCEPT !.status = 500]
                     ELSE [done EXCEPT !.status = 200]
  /\ NoGroupWrite

\* DELETE /api/groups/{id}/members?userId=, up to the answer of the
\* ownership select.
GroupMembersDELETE(s) ==
  LET user == getUser(s)
  IN /\ IF user = NoUser
        THEN /\ last' = Unauthorized(Req("removeMember", s))
             /\ UNCHANGED <<inflight, group_members>>
        ELSE \E groupId \in GroupIds, userId \in Ids \cup {NoId} :
               LET req == [Req("removeMember", s) EXCEPT !.group = groupId,
                                                         !.id = userId]
               IN IF userId = NoId
                  THEN /\ last' = [req EXCEPT !.status = 400,
                                     !.trace = <<"auth.getUser">>]
                       /\ UNCHANGED <<inflight, group_members>>
                  ELSE \E fault1 \in BOOLEAN :
                         IF OwnedGroup(user, groupId, fault1) = {}
                         THEN /\ last' = [req EXCEPT !.status = 404,
                                            !.fault = fault1,
                                            !.trace = <<"auth.getUser",
                                                        "chat_groups.select">>]
                              /\ UNCHANGED <<inflight, group_members>>
                         ELSE Suspend(Suspended("removeMember", s, groupId,
                                                NoUserIds, userId))
     /\ NoGroupWrite

\* DELETE /api/groups/{id}/members?userId=, from the answer of the delete on
\* group_members.
GroupMembersDELETEDelete(s) ==
  /\ \E p \in inflight, fault \in BOOLEAN :
       LET res  == DeleteMember(p.group, p.id, fault)
           done == Resumed(p, "group_members.delete", fault)
       IN /\ p.kind = "removeMember" /\ p.session = s
          /\ inflight' = inflight \ {p}
          /\ group_members' = res.store
          /\ last' = IF res.error # NoError THEN [done EXCEPT !.status = 500]
                     ELSE [done EXCEPT !.status = 200]
  /\ NoGroupWrite

\* ------------------------------------------------------------------ table contact_groups

\* Row-level security policies of contact_groups (the SELECT policy is
\* RlsSelectContactGroups above).
RlsInsertContactOnly(s, m) ==
  \E r \in contacts : r.id = m.contact_id /\ r.owner_id = auth_uid(s)

RlsInsertContactGroups(s, m) ==
  /\ \E r \in contacts : r.id = m.contact_id /\ r.owner_id = auth_uid(s)
  /\ \E g \in chat_groups : g.id = m.group_id /\ g.owner_id = auth_uid(s)

RlsDeleteContactGroups(s, m) ==
  \E r \in contacts : r.id = m.contact_id /\ r.owner_id = auth_uid(s)

\* Mutant of UniqueContactGroup: the table has no such constraint.
UniqueContactGroupMissing(rows, new) == TRUE

\* UNIQUE(contact_id, group_id)
UniqueContactGroup(rows, new) ==
  ~\E r \in rows : r.contact_id = new.contact_id /\ r.group_id = new.group_id

\* contact_id REFERENCES contacts(id), group_id REFERENCES chat_groups(id)
ForeignKeys(new) ==
  /\ \E r \in contacts : r.id = new.contact_id
  /\ \E g \in chat_groups : g.id = new.group_id

\* id UUID DEFAULT gen_random_uuid(): a key no row of the table has, here the
\* pair of the new row with the smallest number that makes a free key.
FreeId(rows, new) ==
  LET Key(k) == <<new.contact_id, new.group_id, k>>
  IN Key(CHOOSE k \in 1 .. Cardinality(rows) + 1 :
           /\ \A r \in rows : r.id # Key(k)
           /\ \A j \in 1 .. k - 1 : \E r \in rows : r.id = Key(j))

\* The rows of one INSERT, taken one after the other: the policy is checked
\* before a row is stored and the constraints when it is.
RECURSIVE InsertRows(_, _, _)
InsertRows(s, new, rows) ==
  IF new = <<>> THEN [error |-> NoError, store |-> rows]
  ELSE LET m == Head(new)
       IN IF ~RlsInsertContactGroups(s, m) THEN [error |-> "42501", store |-> rows]
          ELSE IF ~UniqueContactGroup(rows, m) THEN [error |-> "23505", store |-> rows]
          ELSE IF ~ForeignKeys(m) THEN [error |-> "23503", store |-> rows]
          ELSE InsertRows(s, Tail(new),
                          rows \cup {[id |-> FreeId(rows, m),
                                      contact_id |-> m.contact_id,
                                      group_id |-> m.group_id]})

\* The membership rows the dialog builds from the contact ids to add.
Memberships(groupId, ids) ==
  [i \in DOMAIN ids |-> [contact_id |-> ids[i], group_id |-> groupId]]

\* Mutant of InsertMemberships: the statement reports success and stores
\* nothing.
InsertMembershipsNothing(s, new, fault) ==
  [error |-> NoError, store |-> contact_groups]

\* supabase.from("contact_groups").insert(memberships): one statement, which
\* stores all its rows or none.
InsertMemberships(s, new, fault) ==
  LET res == InsertRows(s, new, contact_groups)
      err == IF fault THEN DbFault ELSE res.error
  IN [error |-> err,
      store |-> IF err = NoError THEN res.store ELSE contact_groups]

\* supabase.from("contact_groups").select("contact_id").eq("group_id", groupId)
SelectMemberships(s, groupId, fault) ==
  [error |-> IF fault THEN DbFault ELSE NoError,
   data  |-> IF fault THEN {}
             ELSE {m \in contact_groups :
                     RlsSelectContactGroups(s, m) /\ m.group_id = groupId}]

\* supabase.from("contact_groups").delete().eq("group_id", groupId)
\*   .in("contact_id", ids)
DeleteMemberships(s, groupId, ids, fault) ==
  [error |-> IF fault THEN DbFault ELSE NoError,
   store |-> IF fault THEN contact_groups
             ELSE {m \in contact_groups :
                     ~(/\ RlsDeleteContactGroups(s, m)
                       /\ m.group_id = groupId
                       /\ \E i \in DOMAIN ids : ids[i] = m.contact_id)}]

\* contact_groups.group_id REFERENCES chat_groups(id) ON DELETE CASCADE
CascadeGroups(groups, memberships) ==
  {m \in memberships : \E g \in groups : g.id = m.group_id}

\* The lists of contact ids a membership statement is issued with.
ContactIdLists == {<<i>> : i \in Ids} \cup {<<1, 1>>, <<1, 2>>}

\* The statements the dialog sends to contact_groups, as a browser session
\* may issue them for any group and contact ids it holds.
StmtSelectMemberships(s) ==
  \E groupId \in GroupIds, fault \in BOOLEAN :
    LET res == SelectMemberships(s, groupId, fault)
    IN /\ last' = [Req("selectMemberships", s) EXCEPT
                     !.group = groupId, !.fault = fault, !.error = res.error,
                     !.members = res.data, !.trace = <<"contact_groups.select">>]
       /\ UNCHANGED <<group_members, inflight>> /\ NoGroupWrite

StmtDeleteMemberships(s) ==
  \E groupId \in GroupIds, ids \in ContactIdLists, fault \in BOOLEAN :
    LET res == DeleteMemberships(s, groupId, ids, fault)
    IN /\ contact_groups' = res.store
       /\ last' = [Req("deleteMemberships", s) EXCEPT
                     !.group = groupId, !.userIds = ids, !.fault = fault,
                     !.error = res.error, !.trace = <<"contact_groups.delete">>]
       /\ UNCHANGED <<contacts, nextId, chat_groups, group_members, dialog, page,
                      inflight>>

StmtInsertMemberships(s) ==
  \E groupId \in GroupIds, ids \in ContactIdLists, fault \in BOOLEAN :
    LET res == InsertMemberships(s, Memberships(groupId, ids), fault)
    IN /\ contact_groups' = res.store
       /\ last' = [Req("insertMemberships", s) EXCEPT
                     !.group = groupId, !.userIds = ids, !.fault = fault,
                     !.error = res.error, !.trace = <<"contact_groups.insert">>]
       /\ UNCHANGED <<contacts, nextId, chat_groups, group_members, dialog, page,
                      inflight>>

\* A group is deleted by its owner (the groups API is not part of this
\* module); the memberships of the group go with it.
GroupDELETE(s) ==
  \E groupId \in GroupIds :
    LET gone == {g \in chat_groups : g.id = groupId /\ g.owner_id = getUser(s)}
    IN /\ gone # {}
       /\ chat_groups' = chat_groups \ gone
       /\ contact_groups' = CascadeGroups(chat_groups', contact_groups)
       /\ last' = [Req("deleteGroup", s) EXCEPT
                     !.group = groupId, !.status = 200,
                     !.trace = <<"auth.getUser", "chat_groups.delete">>]
       /\ UNCHANGED <<contacts, nextId, group_members, dialog, page, inflight>>

\* ------------------------------------------------------------------ group management dialog

\* The mounted dialogs, each in a browser session of its own.
Dialogs == {"d1", "d2"}

\* The user signed in to the browser session of a dialog.
DialogSession(d) == "u1"

\* error === null
NoMessage == "(null)"

\* The id the groups API gives the group it creates.
NewGroupId == "g3"

\* The error field of the answer to a request the server has not executed
\* yet.
Unanswered == "(unanswered)"

\* The names a user types into the name field.
GroupNames == {<<" ">>, <<"h">>}

\* What a call of handleSave holds: the props and state it was called with
\* and its locals.
NoSave ==
  [group |-> NoGroup, name |-> <<>>, selectedUserIds |-> {},
   currentMemberIds |-> {}, toAdd |-> {}, toRemove |-> {}]

\* The dialog after mounting closed and without a group: the initial values
\* of its state.  selectedUserIds and contacts are the arrays without their
\* order, contacts by id (no id is in them twice and no handler depends on
\* the order); contactLoads counts the calls of loadContacts and loading[g]
\* the calls of loadGroupMembers(g) whose select the server has not executed
\* yet, contactAnswers and loaded[g] hold the answers of those it has, on
\* their way to the dialog; pc is the await at which handleSave stands and
\* answer the answer to the request it awaits (data the contact ids of the
\* rows read, members the contacts the group had when the server read them);
\* ops lists the requests of the save that have ended; onGroupSaved and
\* onClose tell whether the save has called them; calls counts the calls of
\* handleSave that have issued a request.
Unmounted ==
  [isOpen |-> FALSE, group |-> NoGroup, name |-> <<>>, selectedUserIds |-> {},
   isSaving |-> FALSE, error |-> NoMessage, contacts |-> {},
   isLoadingContacts |-> FALSE, contactLoads |-> 0, contactAnswers |-> <<>>,
   loading |-> [g \in GroupIds |-> 0], loaded |-> [g \in GroupIds |-> <<>>],
   pc |-> "idle", answer |-> [error |-> Unanswered, data |-> {}, members |-> {}],
   save |-> NoSave, ops |-> <<>>, onGroupSaved |-> FALSE, onClose |-> FALSE,
   calls |-> 0]

\* A sequence without its i-th element: the answers without the one that
\* has arrived, the handlers without the one that has returned.
Returned(procs, i) == SubSeq(procs, 1, i - 1) \o SubSeq(procs, i + 1, Len(procs))

\* The record of the last save lasts until the next event of the dialog
\* after the save has returned. A save works on the props and state of the
\* render it was started in.
Touch(r) ==
  IF r.pc = "idle"
  THEN [r EXCEPT !.save = NoSave, !.ops = <<>>,
                 !.onGroupSaved = FALSE, !.onClose = FALSE]
  ELSE r

\* The ids of a set in ascending order.
RECURSIVE SeqOf(_)
SeqOf(S) ==
  IF S = {} THEN <<>>
  ELSE LET m == CHOOSE x \in S : \A y \in S : x <= y
       IN <<m>> \o SeqOf(S \ {m})

\* The rows stored one after the other, each under a key of its own.
RECURSIVE StoreRows(_, _)
StoreRows(new, rows) ==
  IF new = <<>> THEN rows
  ELSE StoreRows(Tail(new),
                 rows \cup {[id |-> FreeId(rows, Head(new)),
                             contact_id |-> Head(new).contact_id,
                             group_id |-> Head(new).group_id]})

\* PUT /api/groups/{id} (the groups API is not part of this module): renames
\* the group if the caller owns it.
UpdateGroup(s, groupId, name, fault) ==
  LET hit == {g \in chat_groups : g.id = groupId /\ g.owner_id = getUser(s)}
      ok  == ~fault /\ hit # {}
  IN [ok |-> ok,
      store |-> IF ok
                THEN (chat_groups \ hit) \cup
                       {[g EXCEPT !.group_name = name] : g \in hit}
                ELSE chat_groups]

\* POST /api/groups (the groups API is not part of this module): creates the
\* group with its members, or nothing.
CreateGroup(s, name, memberIds, fault) ==
  LET g      == [id |-> NewGroupId, owner_id |-> getUser(s), group_name |-> name]
      groups == chat_groups \cup {g}
      ok     == /\ ~fault
                /\ getUser(s) # NoUser
                /\ \A id \in memberIds :
                     \E r \in contacts : r.id = id /\ r.owner_id = getUser(s)
  IN [ok |-> ok,
      groups |-> IF ok THEN groups ELSE chat_groups,
      memberships |-> IF ok
                      THEN StoreRows(Memberships(NewGroupId, SeqOf(memberIds)),
                                     contact_groups)
                      ELSE contact_groups]

\* toAdd = selectedUserIds.filter(id => !currentMemberIds.includes(id))
ToAdd(selectedUserIds, currentMemberIds) ==
  {id \in selectedUserIds : id \notin currentMemberIds}

\* Mutant of ToRemove: no member is removed.
ToRemoveNone(selectedUserIds, currentMemberIds) == {}

\* toRemove = currentMemberIds.filter(id => !selectedUserIds.includes(id))
ToRemove(selectedUserIds, currentMemberIds) ==
  {id \in currentMemberIds : id \notin selectedUserIds}

\* A request of a save, as listed in ops: its kind, the contact ids it names
\* (for the read: the members the group has then) and whether it succeeded.
Op(op, ids, ok) == [op |-> op, ids |-> ids, ok |-> ok]

\* onGroupSaved(); onClose(); and the finally block. The parent closes the
\* dialog on onClose.
Finish(r) ==
  [r EXCEPT !.pc = "idle", !.answer = Unmounted.answer, !.isSaving = FALSE,
            !.onGroupSaved = TRUE, !.onClose = TRUE, !.isOpen = FALSE]

\* The catch block and the finally block.
Throw(r, message) ==
  [r EXCEPT !.pc = "idle", !.answer = Unmounted.answer, !.isSaving = FALSE,
            !.error = message]

NoStoreWrite ==
  UNCHANGED <<contacts, nextId, chat_groups, contact_groups, group_members, last,
              page, inflight>>

\* The parent renders the dialog open: useEffect([isOpen]) calls
\* loadContacts, which shows the spinner and issues its select.
DlgOpen(d) ==
  /\ ~dialog[d].isOpen
  /\ dialog[d].contactLoads + Len(dialog[d].contactAnswers) < MaxInFlight
  /\ dialog' = [dialog EXCEPT ![d] =
                  [Touch(@) EXCEPT !.isOpen = TRUE, !.isLoadingContacts = TRUE,
                                   !.contactLoads = @ + 1]]
  /\ NoStoreWrite

\* onClose from the X button, which is never disabled, or from Cancel: the
\* parent renders the dialog closed.
DlgClose(d) ==
  /\ dialog[d].isOpen
  /\ dialog' = [dialog EXCEPT ![d] = [Touch(@) EXCEPT !.isOpen = FALSE]]
  /\ NoStoreWrite

\* The parent passes another group prop, useEffect([group]): without a group
\* (create mode) the name and the selection are reset; with a group of the
\* user (edit mode; the groups the dialog has created are not edited again)
\* the name is set and loadGroupMembers is called.
DlgGroup(d) ==
  /\ LET r == Touch(dialog[d])
     IN \/ /\ r.group # NoGroup
           /\ dialog' =
                [dialog EXCEPT ![d] =
                   [r EXCEPT !.group = NoGroup, !.name = <<>>,
                             !.selectedUserIds = {}]]
        \/ \E g \in {x \in chat_groups :
                       x.owner_id = DialogSession(d) /\ x.id \in GroupIds} :
             /\ r.loading[g.id] + Len(r.loaded[g.id]) < MaxInFlight
             /\ dialog' =
                  [dialog EXCEPT ![d] =
                     [r EXCEPT !.group = g.id, !.name = g.group_name,
                               !.loading[g.id] = @ + 1]]
  /\ NoStoreWrite

\* loadContacts: the server executes the select on contacts of a load, under
\* the select policy of the table.
DlgLoadContactsSelect(d) ==
  /\ dialog[d].contactLoads > 0
  /\ \E fault \in BOOLEAN :
       LET res == Select(VisibleContacts(DialogSession(d)), fault)
       IN dialog' =
            [dialog EXCEPT ![d] =
               [@ EXCEPT !.contactLoads = @ - 1,
                         !.contactAnswers =
                            Append(@, [error |-> res.error,
                                       data |-> {c.id : c \in res.data},
                                       members |-> {}])]]
  /\ NoStoreWrite

\* loadContacts: an answer to the select on contacts arrives; the list is
\* replaced on success and "Failed to load contacts" is shown on an error.
DlgLoadContacts(d) ==
  /\ \E i \in DOMAIN dialog[d].contactAnswers :
       LET res == dialog[d].contactAnswers[i]
           r   == [Touch(dialog[d]) EXCEPT !.contactAnswers = Returned(@, i),
                                           !.isLoadingContacts = FALSE]
       IN dialog' =
            [dialog EXCEPT ![d] =
               IF res.error # NoError
               THEN [r EXCEPT !.error = "Failed to load contacts"]
               ELSE [r EXCEPT !.contacts = res.data]]
  /\ NoStoreWrite

\* loadGroupMembers: the server executes the query for the members of a
\* group, under the select policy of the table.
DlgLoadGroupMembersSelect(d) ==
  /\ \E g \in GroupIds, fault \in BOOLEAN :
       LET res == SelectMemberships(DialogSession(d), g, fault)
       IN /\ dialog[d].loading[g] > 0
          /\ dialog' =
               [dialog EXCEPT ![d] =
                  [@ EXCEPT !.loading[g] = @ - 1,
                            !.loaded[g] =
                               Append(@, [error |-> res.error,
                                          data |-> {m.contact_id : m \in res.data},
                                          members |-> {}])]]
  /\ NoStoreWrite

\* loadGroupMembers: an answer to the query for the members of a group
\* arrives and, unless it is an error, becomes the selection.
DlgLoadGroupMembers(d) ==
  /\ \E g \in GroupIds :
       \E i \in DOMAIN dialog[d].loaded[g] :
         LET res == dialog[d].loaded[g][i]
             r   == Touch(dialog[d])
         IN dialog' =
              [dialog EXCEPT ![d] =
                 [r EXCEPT !.loaded[g] = Returned(@, i),
                           !.selectedUserIds =
                              IF res.error # NoError THEN @ ELSE res.data]]
  /\ NoStoreWrite

\* handleToggleUser from the checkbox of a contact of the list, which is
\* shown when the dialog is open and no load of the contacts is running.
DlgToggleUser(d) ==
  /\ dialog[d].isOpen /\ ~dialog[d].isLoadingContacts
  /\ \E id \in dialog[d].contacts :
       dialog' =
         [dialog EXCEPT ![d] =
            [Touch(@) EXCEPT !.selectedUserIds =
               IF id \in @ THEN @ \ {id} ELSE @ \cup {id}]]
  /\ NoStoreWrite

\* onChange of the name field.
DlgSetName(d) ==
  /\ dialog[d].isOpen
  /\ \E n \in GroupNames :
       dialog' = [dialog EXCEPT ![d] = [Touch(@) EXCEPT !.name = n]]
  /\ NoStoreWrite

\* Mutant of NameMissing: the name is not trimmed.
NameMissingUntrimmed(name) == name = <<>>

\* !name.trim()
NameMissing(name) == Trim(name) = <<>>

\* Mutant of SaveDisabled: the button is never disabled.
SaveNeverDisabled(r) == FALSE

\* <Button onClick={handleSave} disabled={isSaving}>
SaveDisabled(r) == r.isSaving

\* handleSave up to its first request (the button is disabled while saving).
\* A group is created only while the id of the new group is free, and a
\* request is issued only while the dialog has calls left.
DlgSave(d) ==
  LET r == Touch(dialog[d])
  IN /\ r.isOpen /\ ~SaveDisabled(r)
     /\ IF NameMissing(r.name)
        THEN dialog' = [dialog EXCEPT ![d] =
                          [r EXCEPT !.error = "Group name is required"]]
        ELSE IF r.selectedUserIds = {}
        THEN dialog' = [dialog EXCEPT ![d] =
                          [r EXCEPT !.error = "Please select at least one member"]]
        ELSE /\ r.group = NoGroup => ~\E g \in chat_groups : g.id = NewGroupId
             /\ r.calls < MaxSaves
             /\ dialog' =
                  [dialog EXCEPT ![d] =
                     [r EXCEPT !.isSaving = TRUE, !.error = NoMessage,
                               !.calls = @ + 1,
                               !.save = [NoSave EXCEPT
                                           !.group = r.group, !.name = r.name,
                                           !.selectedUserIds = r.selectedUserIds],
                               !.pc = IF r.group # NoGroup THEN "update"
                                      ELSE "create"]]
     /\ NoStoreWrite

\* The server executes the request handleSave awaits, or the request is
\* lost on its way. The fetch of PUT /api/groups/{id} and of POST /api/groups
\* ends in one of three ways: the server answers (ok or not, "answer"), it
\* answers with an error it ran into itself ("error"), or the promise
\* rejects because the request did not get through ("reject"). A statement
\* on contact_groups goes through the supabase client, which returns an
\* error and does not throw: it is executed ("answer") or fails ("error").
DlgSaveRequest(d) ==
  LET r == dialog[d]
      s == DialogSession(d)
  IN /\ r.pc # "idle" /\ r.answer.error = Unanswered
     /\ \E outcome \in {"answer", "error", "reject"} :
          LET fault  == outcome = "error"
              put    == UpdateGroup(s, r.save.group, r.save.name, fault)
              post   == CreateGroup(s, r.save.name, r.save.selectedUserIds, fault)
              select == SelectMemberships(s, r.save.group, fault)
              delete == DeleteMemberships(s, r.save.group,
                                          SeqOf(r.save.toRemove), fault)
              insert == InsertMemberships(s,
                          Memberships(r.save.group, SeqOf(r.save.toAdd)), fault)
              error  == IF outcome = "reject" THEN "reject"
                        ELSE IF r.pc = "update"
                        THEN (IF put.ok THEN NoError ELSE DbFault)
                        ELSE IF r.pc = "create"
                        THEN (IF post.ok THEN NoError ELSE DbFault)
                        ELSE IF r.pc = "select" THEN select.error
                        ELSE IF r.pc = "delete" THEN delete.error
                        ELSE insert.error
          IN /\ outcome = "reject" => r.pc \in {"update", "create"}
             /\ chat_groups' =
                  IF outcome = "reject" THEN chat_groups
                  ELSE IF r.pc = "update" THEN put.store
                  ELSE IF r.pc = "create" THEN post.groups
                  ELSE chat_groups
             /\ contact_groups' =
                  IF outcome = "reject" THEN contact_groups
                  ELSE IF r.pc = "create" THEN post.memberships
                  ELSE IF r.pc = "delete" THEN delete.store
                  ELSE IF r.pc = "insert" THEN insert.store
                  ELSE contact_groups
             /\ dialog' =
                  [dialog EXCEPT ![d].answer =
                     [error |-> error,
                      data |-> IF r.pc = "select"
                               THEN {m.contact_id : m \in select.data}
                               ELSE {},
                      members |-> IF r.pc = "select"
                                  THEN {m.contact_id :
                                          m \in {x \in contact_groups :
                                                   x.group_id = r.save.group}}
                                  ELSE {}]]
     /\ UNCHANGED <<contacts, nextId, group_members, last, page, inflight>>

\* handleSave, edit mode: the fetch of PUT /api/groups/{id} has ended. A
\* response that is not ok throws 'Failed to update group'; a rejected
\* fetch throws a TypeError, whose message ("Failed to fetch") the catch
\* block shows.
DlgSaveUpdate(d) ==
  LET r    == dialog[d]
      sent == [r EXCEPT !.ops = Append(@, Op("PUT", {}, r.answer.error = NoError)),
                        !.answer = Unmounted.answer]
  IN /\ r.pc = "update" /\ r.answer.error # Unanswered
     /\ dialog' =
          [dialog EXCEPT ![d] =
             IF r.answer.error = "reject" THEN Throw(sent, "Failed to fetch")
             ELSE IF r.answer.error # NoError
             THEN Throw(sent, "Failed to update group")
             ELSE [sent EXCEPT !.pc = "select"]]
     /\ NoStoreWrite

\* handleSave, edit mode: the current members have arrived (an error of the
\* query leaves no members); toAdd and toRemove are computed and the next
\* request is issued.
DlgSaveSelect(d) ==
  LET r        == dialog[d]
      current  == r.answer.data
      toAdd    == ToAdd(r.save.selectedUserIds, current)
      toRemove == ToRemove(r.save.selectedUserIds, current)
      sent     == [r EXCEPT
                     !.ops = Append(@, Op("select", r.answer.members,
                                          r.answer.error = NoError)),
                     !.answer = Unmounted.answer,
                     !.save = [@ EXCEPT !.currentMemberIds = current,
                                        !.toAdd = toAdd,
                                        !.toRemove = toRemove]]
  IN /\ r.pc = "select" /\ r.answer.error # Unanswered
     /\ dialog' =
          [dialog EXCEPT ![d] =
             IF toRemove # {} THEN [sent EXCEPT !.pc = "delete"]
             ELSE IF toAdd # {} THEN [sent EXCEPT !.pc = "insert"]
             ELSE Finish(sent)]
     /\ NoStoreWrite

\* handleSave, edit mode: the delete of toRemove has been answered (its
\* result is not looked at).
DlgSaveDelete(d) ==
  LET r    == dialog[d]
      sent == [r EXCEPT !.ops = Append(@, Op("delete", r.save.toRemove,
                                             r.answer.error = NoError)),
                        !.answer = Unmounted.answer]
  IN /\ r.pc = "delete" /\ r.answer.error # Unanswered
     /\ dialog' =
          [dialog EXCEPT ![d] =
             IF r.save.toAdd # {} THEN [sent EXCEPT !.pc = "insert"]
             ELSE Finish(sent)]
     /\ NoStoreWrite

\* handleSave, edit mode: the insert of toAdd has been answered (its result
\* is not looked at).
DlgSaveInsert(d) ==
  LET r    == dialog[d]
      sent == [r EXCEPT !.ops = Append(@, Op("insert", r.save.toAdd,
                                             r.answer.error = NoError)),
                        !.answer = Unmounted.answer]
  IN /\ r.pc = "insert" /\ r.answer.error # Unanswered
     /\ dialog' = [dialog EXCEPT ![d] = Finish(sent)]
     /\ NoStoreWrite

\* handleSave, create mode: the fetch of POST /api/groups has ended, as that
\* of the PUT. A response that is not ok throws 'Failed to create group'; a
\* rejected fetch throws a TypeError, whose message the catch block shows.
DlgSaveCreate(d) ==
  LET r    == dialog[d]
      sent == [r EXCEPT !.ops = Append(@, Op("POST", r.save.selectedUserIds,
                                             r.answer.error = NoError)),
                        !.answer = Unmounted.answer]
  IN /\ r.pc = "create" /\ r.answer.error # Unanswered
     /\ dialog' =
          [dialog EXCEPT ![d] =
             IF r.answer.error = "reject" THEN Throw(sent, "Failed to fetch")
             ELSE IF r.answer.error # NoError
             THEN Throw(sent, "Failed to create group")
             ELSE Finish(sent)]
     /\ NoStoreWrite

\* ------------------------------------------------------------------ contacts page

\* The page runs in the browser of u1 and talks to the tables through the
\* supabase client, under row-level security.
PageSession == "u1"

\* formData as useState and handleAddContact set it.
EmptyForm ==
  [phoneNumber |-> <<>>, customName |-> <<>>, email |-> <<>>, company |-> <<>>,
   position |-> <<>>, address |-> <<>>, notes |-> <<>>, tags |-> <<>>]

\* value || ""
Text(v) == IF v = Null THEN <<>> ELSE v

\* tags.join(", ")
RECURSIVE JoinTags(_)
JoinTags(tags) ==
  IF tags = <<>> THEN <<>>
  ELSE IF Len(tags) = 1 THEN <<tags[1]>>
  ELSE <<tags[1], ",", " ">> \o JoinTags(Tail(tags))

\* text.split(",")
RECURSIVE SplitComma(_)
SplitComma(text) ==
  IF \A i \in DOMAIN text : text[i] # "," THEN <<text>>
  ELSE LET k == CHOOSE i \in DOMAIN text :
                  text[i] = "," /\ \A j \in 1 .. i - 1 : text[j] # ","
       IN <<SubSeq(text, 1, k - 1)>> \o SplitComma(SubSeq(text, k + 1, Len(text)))

\* formData.tags ? formData.tags.split(",").map(t => t.trim()).filter(Boolean)
\* : null   (a tag of one character is that character)
FormTags(text) ==
  IF text = <<>> THEN Null
  ELSE LET pieces  == SplitComma(text)
           trimmed == [i \in DOMAIN pieces |-> Trim(pieces[i])]
           kept    == SelectSeq(trimmed, LAMBDA t : t # <<>>)
       IN [i \in DOMAIN kept |-> IF Len(kept[i]) = 1 THEN kept[i][1] ELSE kept[i]]

\* formData as handleEditContact sets it from a contact of the list.
FormOf(contact) ==
  [phoneNumber |-> contact.phone_number,
   customName |-> Text(contact.custom_name),
   email |-> Text(contact.email), company |-> Text(contact.company),
   position |-> Text(contact.position), address |-> Text(contact.address),
   notes |-> Text(contact.notes),
   tags |-> IF contact.tags = Null THEN <<>> ELSE JoinTags(contact.tags)]

\* The row handleSaveContact inserts.
PageInsertPayload(form) ==
  [id |-> NoId, owner_id |-> NoUser,
   phone_number |-> Trim(form.phoneNumber),
   custom_name |-> Trim(form.customName),
   whatsapp_name |-> Null,
   email |-> TrimOrNull(form.email),
   company |-> TrimOrNull(form.company),
   position |-> TrimOrNull(form.position),
   address |-> TrimOrNull(form.address),
   notes |-> TrimOrNull(form.notes),
   tags |-> FormTags(form.tags)]

\* The columns handleSaveContact assigns to the contact it edits.
PageUpdatePayload(form) ==
  [custom_name |-> Trim(form.customName),
   email |-> TrimOrNull(form.email),
   company |-> TrimOrNull(form.company),
   position |-> TrimOrNull(form.position),
   address |-> TrimOrNull(form.address),
   notes |-> TrimOrNull(form.notes),
   tags |-> FormTags(form.tags)]

\* A handler of the page that stands at an await: loadContacts called on
\* mount (kind "mount"), handleDeleteContact ("delete") or handleSaveContact
\* ("save"); pc is the await ("loading", "deleting", "updating",
\* "inserting", or "reloading" for the loadContacts a handler awaits),
\* contactId the contact a delete was called with or a save edits, form the
\* formData a save was called with, error and data the answer to the
\* statement the handler awaits, once the server has executed it, ops the
\* statements of a delete handler that have been answered.  synced tells
\* whether the local list held the caller's contacts of the server when the
\* handler was called, alone whether no other handler has run and no other
\* event has set the error since.
Proc(kind, pc, contactId, form, alone) ==
  [kind |-> kind, pc |-> pc, contactId |-> contactId, form |-> form,
   error |-> Unanswered, data |-> <<>>, ops |-> <<>>,
   synced |-> /\ {page.contacts[i] : i \in DOMAIN page.contacts} =
                   VisibleContacts(PageSession)
              /\ \A i, j \in DOMAIN page.contacts :
                   page.contacts[i] = page.contacts[j] => i = j,
   alone |-> alone]

NoProc ==
  [kind |-> "none", pc |-> "none", contactId |-> NoId, form |-> EmptyForm,
   error |-> Unanswered, data |-> <<>>, ops |-> <<>>, synced |-> FALSE,
   alone |-> FALSE]

\* The page before it is mounted: the initial values of its state.  contacts
\* is the local list (filteredContacts follows it, the search term being
\* empty), editingContact the id of the contact being edited, procs the
\* handlers that stand at an await, in the order they were called, done the
\* delete handler that returned in the last step, and calls the number of
\* handlers that have issued a statement.
NoPage ==
  [mounted |-> FALSE, contacts |-> <<>>, isLoading |-> TRUE,
   error |-> NoMessage, showAddDialog |-> FALSE, editingContact |-> NoId,
   formData |-> EmptyForm, isSaving |-> FALSE, procs |-> <<>>,
   done |-> NoProc, calls |-> 0]

\* Mutant of RemoveLocal: the deleted contact stays in the local list.
RemoveLocalNothing(list, id) == list

\* prev.filter(c => c.id !== contactId)
RemoveLocal(list, id) == SelectSeq(list, LAMBDA c : c.id # id)

\* The handlers that run when another handler is called or another event
\* sets the error.
Disturbed(procs) == [i \in DOMAIN procs |-> [procs[i] EXCEPT !.alone = FALSE]]

\* The server executes the statement a handler of the page awaits, through
\* the supabase client and under the policies of the table: the select of
\* loadContacts (select * from contacts order by custom_name), the delete of
\* handleDeleteContact (delete from contacts where id = contactId), the
\* update or the insert of handleSaveContact.  The store has the id
\* MaxIds + 2 for a contact the page creates.
PageStatement ==
  /\ \E i \in DOMAIN page.procs, fault \in BOOLEAN :
       LET p      == page.procs[i]
           select == Select(VisibleContacts(PageSession), fault)
           delete == DeleteContact(PageSession, p.contactId,
                                   auth_uid(PageSession), fault)
           update == UpdateContact(PageSession, PageUpdatePayload(p.form),
                                   p.contactId, auth_uid(PageSession), fault)
           insert == InsertContact(PageSession, PageInsertPayload(p.form), fault)
           res    == IF p.pc = "deleting" THEN delete
                     ELSE IF p.pc = "updating" THEN update
                     ELSE IF p.pc = "inserting" THEN insert
                     ELSE select
           stored == p.pc = "inserting" /\ res.error = NoError
       IN /\ p.error = Unanswered
          /\ stored => nextId <= MaxIds + 2
          /\ contacts' = res.store
          /\ contact_groups' = CascadeContacts(res.store, contact_groups)
          /\ nextId' = IF stored THEN nextId + 1 ELSE nextId
          /\ IF p.pc \in {"loading", "reloading"} /\ res.error = NoError
             THEN \E sq \in OrderByCustomName(res.data) :
                    page' = [page EXCEPT !.procs[i].error = res.error,
                                         !.procs[i].data = sq]
             ELSE page' = [page EXCEPT !.procs[i].error = res.error]
  /\ UNCHANGED <<chat_groups, group_members, last, dialog, inflight>>

\* loadContacts from the answer of its select: the list is replaced when the
\* select succeeded and "Failed to load contacts" is shown when it failed;
\* the spinner is taken away.  The handler that awaited it goes on:
\* handleDeleteContact returns, handleSaveContact closes the form, clears
\* isSaving and returns.
PageLoadContacts ==
  /\ \E i \in DOMAIN page.procs :
       LET p     == page.procs[i]
           log   == Append(p.ops, Op("select", {}, p.error = NoError))
           base  == [page EXCEPT
                       !.isLoading = FALSE,
                       !.procs = Returned(@, i),
                       !.done = IF p.kind = "delete"
                                THEN [p EXCEPT !.ops = log, !.pc = "none",
                                               !.error = Unanswered,
                                               !.data = <<>>]
                                ELSE NoProc]
           after == IF p.kind = "save"
                    THEN [base EXCEPT !.showAddDialog = FALSE,
                                      !.isSaving = FALSE]
                    ELSE base
       IN /\ p.pc \in {"loading", "reloading"} /\ p.error # Unanswered
          /\ page' = IF p.error # NoError
                     THEN [after EXCEPT !.error = "Failed to load contacts"]
                     ELSE [after EXCEPT !.contacts = p.data]
  /\ UNCHANGED <<contacts, nextId, chat_groups, contact_groups, group_members,
                 last, dialog, inflight>>

\* handleDeleteContact(contact.id), from the delete button of a contact of
\* the list (shown when no load is running), up to its first await: it
\* returns when confirm() is declined, and otherwise clears the error and
\* issues the delete.
PageDeleteContact ==
  /\ page.mounted /\ ~page.isLoading
  /\ \E i \in DOMAIN page.contacts, confirmed \in BOOLEAN :
       LET p == Proc("delete", "deleting", page.contacts[i].id, EmptyForm,
                     page.procs = <<>>)
       IN IF ~confirmed
          THEN page' = [page EXCEPT !.done = [p EXCEPT !.pc = "none"]]
          ELSE /\ page.calls < MaxCalls
               /\ page' = [page EXCEPT !.error = NoMessage,
                                       !.procs = Append(Disturbed(@), p),
                                       !.done = NoProc, !.calls = @ + 1]
  /\ UNCHANGED <<contacts, nextId, chat_groups, contact_groups, group_members,
                 last, dialog, inflight>>

\* handleDeleteContact from the answer of its delete.  On success the
\* contact leaves the local list; on an error the message is shown (the
\* error of the supabase client is no instance of Error) and loadContacts is
\* awaited.
PageDeleteAnswered ==
  /\ \E i \in DOMAIN page.procs :
       LET p   == page.procs[i]
           log == Append(p.ops, Op("delete", {p.contactId}, p.error = NoError))
       IN /\ p.kind = "delete" /\ p.pc = "deleting" /\ p.error # Unanswered
          /\ page' = IF p.error # NoError
                     THEN [page EXCEPT
                             !.error = "Failed to delete contact: Unknown error",
                             !.isLoading = TRUE,
                             !.procs[i] = [p EXCEPT !.pc = "reloading",
                                                    !.error = Unanswered,
                                                    !.ops = log],
                             !.done = NoProc]
                     ELSE [page EXCEPT
                             !.contacts = RemoveLocal(@, p.contactId),
                             !.procs = Returned(@, i),
                             !.done = [p EXCEPT !.ops = log, !.pc = "none",
                                                !.error = Unanswered]]
  /\ UNCHANGED <<contacts, nextId, chat_groups, contact_groups, group_members,
                 last, dialog, inflight>>

\* handleAddContact, from the Add Contact button of the header.
PageAddContact ==
  /\ page.mounted
  /\ page' = [page EXCEPT !.editingContact = NoId, !.formData = EmptyForm,
                          !.showAddDialog = TRUE, !.error = NoMessage,
                          !.procs = Disturbed(@), !.done = NoProc]
  /\ UNCHANGED <<contacts, nextId, chat_groups, contact_groups, group_members,
                 last, dialog, inflight>>

\* handleEditContact(contact), from the edit button of a contact of the list.
PageEditContact ==
  /\ page.mounted /\ ~page.isLoading
  /\ \E i \in DOMAIN page.contacts :
       page' = [page EXCEPT !.editingContact = page.contacts[i].id,
                            !.formData = FormOf(page.contacts[i]),
                            !.showAddDialog = TRUE, !.error = NoMessage,
                            !.procs = Disturbed(@), !.done = NoProc]
  /\ UNCHANGED <<contacts, nextId, chat_groups, contact_groups, group_members,
                 last, dialog, inflight>>

\* onChange of the name field and of the phone field of the form, with the
\* names and the phone numbers a user types; the fields are disabled while
\* saving, the phone field also while a contact is edited.
PageSetForm ==
  /\ page.showAddDialog /\ ~page.isSaving
  /\ \/ \E n \in {<<" ">>, <<"b">>} :
          page' = [page EXCEPT !.formData.customName = n, !.done = NoProc]
     \/ /\ page.editingContact = NoId
        /\ \E ph \in {<<"1">>, <<"2">>} :
             page' = [page EXCEPT !.formData.phoneNumber = ph, !.done = NoProc]
  /\ UNCHANGED <<contacts, nextId, chat_groups, contact_groups, group_members,
                 last, dialog, inflight>>

\* setShowAddDialog(false), from the X button of the form, which is never
\* disabled, or from Cancel.
PageCloseForm ==
  /\ page.showAddDialog
  /\ page' = [page EXCEPT !.showAddDialog = FALSE, !.done = NoProc]
  /\ UNCHANGED <<contacts, nextId, chat_groups, contact_groups, group_members,
                 last, dialog, inflight>>

\* handleSaveContact up to its first await (the button is disabled while
\* saving): the validation, setIsSaving(true), setError(null) and the update
\* or the insert issued.
PageSaveContact ==
  LET form    == page.formData
      editing == page.editingContact # NoId
      refused == [page EXCEPT !.procs = Disturbed(@), !.done = NoProc]
  IN /\ page.showAddDialog /\ ~page.isSaving
     /\ IF editing /\ Trim(form.customName) = <<>>
        THEN page' = [refused EXCEPT !.error = "Name is required"]
        ELSE IF ~editing /\ (Trim(form.phoneNumber) = <<>>
                             \/ Trim(form.customName) = <<>>)
        THEN page' = [refused EXCEPT
                        !.error = "Phone number and name are required"]
        ELSE /\ page.calls < MaxCalls
             /\ page' =
                  [refused EXCEPT
                     !.isSaving = TRUE, !.error = NoMessage, !.calls = @ + 1,
                     !.procs = Append(@, Proc("save",
                                              IF editing THEN "updating"
                                              ELSE "inserting",
                                              page.editingContact, form, FALSE))]
     /\ UNCHANGED <<contacts, nextId, chat_groups, contact_groups, group_members,
                 last, dialog, inflight>>

\* handleSaveContact from the answer of its update or insert: an error is
\* shown and isSaving cleared (23505 of the insert with a message of its
\* own), and after a success loadContacts is awaited.
PageSaveAnswered ==
  /\ \E i \in DOMAIN page.procs :
       LET p      == page.procs[i]
           failed == [page EXCEPT !.isSaving = FALSE,
                                  !.procs = Returned(@, i), !.done = NoProc]
       IN /\ p.kind = "save" /\ p.pc \in {"updating", "inserting"}
          /\ p.error # Unanswered
          /\ page' =
               IF p.error = NoError
               THEN [page EXCEPT !.isLoading = TRUE,
                                 !.procs[i] = [p EXCEPT !.pc = "reloading",
                                                        !.error = Unanswered],
                                 !.done = NoProc]
               ELSE IF p.pc = "updating"
               THEN [failed EXCEPT !.error = "Failed to update contact"]
               ELSE IF p.error = "23505"
               THEN [failed EXCEPT
                       !.error = "Contact with this phone number already exists"]
               ELSE [failed EXCEPT !.error = "Failed to create contact"]
  /\ UNCHANGED <<contacts, nextId, chat_groups, contact_groups, group_members,
                 last, dialog, inflight>>

\* ------------------------------------------------------------------ specification

\* The groups of the application (the groups API is not part of this module).
Groups ==
  {[id |-> "g1", owner_id |-> "u1", group_name |-> <<"g">>],
   [id |-> "g2", owner_id |-> "u2", group_name |-> <<"g">>]}

Init ==
  /\ contacts = {}
  /\ nextId = 1
  /\ chat_groups = Groups
  /\ contact_groups = {}
  /\ group_members = {}
  /\ last = Req("none", NoUser)
  /\ dialog = [d \in Dialogs |-> Unmounted]
  /\ page = NoPage
  /\ inflight = {}

Next ==
  \E s \in Sessions :
    \/ ContactsGET(s)
    \/ ContactsPOST(s)
    \/ ContactByIdGET(s)
    \/ ContactByIdPUT(s)
    \/ ContactByIdDELETE(s)
    \/ SearchGET(s)

Spec == Init /\ [][Next]_vars

\* The whole API, contacts and group membership, on a store that has handed
\* out all its ids (the contacts created with them deleted again).
InitApi ==
  /\ contacts = {}
  /\ nextId = MaxIds + 1
  /\ chat_groups = Groups
  /\ contact_groups = {}
  /\ group_members = {}
  /\ last = Req("none", NoUser)
  /\ dialog = [d \in Dialogs |-> Unmounted]
  /\ page = NoPage
  /\ inflight = {}

NextApi ==
  \E s \in Sessions :
    \/ ContactsGET(s)
    \/ ContactsPOST(s)
    \/ ContactByIdGET(s)
    \/ ContactByIdPUT(s)
    \/ ContactByIdDELETE(s)
    \/ SearchGET(s)
    \/ GroupMembersGET(s)
    \/ GroupMembersGETSelect(s)
    \/ GroupMembersPOST(s)
    \/ GroupMembersPOSTInsert(s)
    \/ GroupMembersDELETE(s)
    \/ GroupMembersDELETEDelete(s)

SpecApi == InitApi /\ [][NextApi]_vars

\* The contact with id i as POST /api/contacts stored it; the second contact
\* was created by u2 and the others by u1.
StoredContact(i) ==
  [id |-> i, owner_id |-> IF i = 2 THEN "u2" ELSE "u1",
   phone_number |-> [j \in 1 .. i |-> "1"], custom_name |-> <<"a">>,
   whatsapp_name |-> Null, email |-> Null, company |-> Null, tags |-> Null,
   position |-> Null, address |-> Null, notes |-> Null]

\* The membership store: the statements on contact_groups from any session,
\* contacts deleted and groups deleted, on a store in which the contacts
\* 1 .. MaxIds have been created.
InitMembers ==
  /\ contacts = {StoredContact(i) : i \in Ids}
  /\ nextId = MaxIds + 1
  /\ chat_groups = Groups
  /\ contact_groups = {}
  /\ group_members = {}
  /\ last = Req("none", NoUser)
  /\ dialog = [d \in Dialogs |-> Unmounted]
  /\ page = NoPage
  /\ inflight = {}

NextMembers ==
  \E s \in Sessions :
    \/ StmtSelectMemberships(s)
    \/ StmtInsertMemberships(s)
    \/ StmtDeleteMemberships(s)
    \/ ContactByIdDELETE(s)
    \/ GroupDELETE(s)

SpecMembers == InitMembers /\ [][NextMembers]_vars

\* The group-membership API while groups are deleted, on a store in which
\* the contacts 1 .. MaxIds have been created and the first is a member of
\* the group of its owner.
InitGroupApi ==
  /\ contacts = {StoredContact(i) : i \in Ids}
  /\ nextId = MaxIds + 1
  /\ chat_groups = Groups
  /\ contact_groups = {[id |-> <<1, "g1", 1>>, contact_id |-> 1,
                        group_id |-> "g1"]}
  /\ group_members = {}
  /\ last = Req("none", NoUser)
  /\ dialog = [d \in Dialogs |-> Unmounted]
  /\ page = NoPage
  /\ inflight = {}

NextGroupApi ==
  \E s \in Sessions :
    \/ GroupMembersGET(s)
    \/ GroupMembersGETSelect(s)
    \/ GroupMembersPOST(s)
    \/ GroupMembersPOSTInsert(s)
    \/ GroupMembersDELETE(s)
    \/ GroupMembersDELETEDelete(s)
    \/ GroupDELETE(s)

SpecGroupApi == InitGroupApi /\ [][NextGroupApi]_vars

\* One dialog of u1 with every event of the dialog at any time, on a store
\* in which the contacts 1 .. MaxIds + 1 have been created and the first is
\* a member of the group of its owner.
InitDialog ==
  /\ contacts = {StoredContact(i) : i \in 1 .. MaxIds + 1}
  /\ nextId = MaxIds + 2
  /\ chat_groups = Groups
  /\ contact_groups = {[id |-> <<1, "g1", 1>>, contact_id |-> 1,
                        group_id |-> "g1"]}
  /\ group_members = {}
  /\ last = Req("none", NoUser)
  /\ dialog = [d \in Dialogs |-> Unmounted]
  /\ page = NoPage
  /\ inflight = {}

NextDialog ==
  \/ DlgOpen("d1")
  \/ DlgClose("d1")
  \/ DlgGroup("d1")
  \/ DlgLoadContactsSelect("d1")
  \/ DlgLoadContacts("d1")
  \/ DlgLoadGroupMembersSelect("d1")
  \/ DlgLoadGroupMembers("d1")
  \/ DlgToggleUser("d1")
  \/ DlgSetName("d1")
  \/ DlgSave("d1")
  \/ DlgSaveRequest("d1")
  \/ DlgSaveUpdate("d1")
  \/ DlgSaveSelect("d1")
  \/ DlgSaveDelete("d1")
  \/ DlgSaveInsert("d1")
  \/ DlgSaveCreate("d1")

SpecDialog == InitDialog /\ [][NextDialog]_vars

\* The contacts of the store the save specifications start from, and the ids
\* of those a user owns.
SavedContacts == {StoredContact(i) : i \in 1 .. MaxIds + 2}

OwnIds(u) == {c.id : c \in {x \in SavedContacts : x.owner_id = u}}

\* The dialog of u1 as the user has it before a click on Save: open, with
\* or without a group, the contacts loaded, a name in the field and the
\* contacts in S ticked.
Ready(group, name, S) ==
  [Unmounted EXCEPT !.isOpen = TRUE, !.group = group, !.name = name,
                    !.selectedUserIds = S, !.contacts = OwnIds("u1")]

\* One save of one dialog from the click to its return, for every name,
\* selection and mode the user can have set and every membership earlier
\* saves can have left in group g1, on a store in which the contacts
\* 1 .. MaxIds + 2 have been created; nothing else happens meanwhile.
InitSave ==
  /\ contacts = SavedContacts
  /\ nextId = MaxIds + 3
  /\ chat_groups = Groups
  /\ \E M \in SUBSET OwnIds("u1") :
       contact_groups = {[id |-> <<c, "g1", 1>>, contact_id |-> c,
                          group_id |-> "g1"] : c \in M}
  /\ group_members = {}
  /\ last = Req("none", NoUser)
  /\ \E S \in SUBSET OwnIds("u1") :
       \/ \E name \in {<<>>} \cup GroupNames :
            dialog = [d \in Dialogs |->
                        IF d = "d1" THEN Ready(NoGroup, name, S) ELSE Unmounted]
       \/ \E g \in {x \in Groups : x.id = "g1"} :
            \E name \in {g.group_name} \cup GroupNames :
              dialog = [d \in Dialogs |->
                          IF d = "d1" THEN Ready(g.id, name, S) ELSE Unmounted]
  /\ page = NoPage
  /\ inflight = {}

NextSave ==
  \/ DlgSave("d1")
  \/ DlgSaveRequest("d1")
  \/ DlgSaveUpdate("d1")
  \/ DlgSaveSelect("d1")
  \/ DlgSaveDelete("d1")
  \/ DlgSaveInsert("d1")
  \/ DlgSaveCreate("d1")

SpecSave == InitSave /\ [][NextSave]_vars

\* Two dialogs of u1 (two tabs) editing group g1, each with a selection of
\* its own, on a store in which the contacts 1 .. MaxIds + 2 have been
\* created; each dialog saves, and the steps of the two saves interleave.
InitTwoDialogs ==
  /\ contacts = SavedContacts
  /\ nextId = MaxIds + 3
  /\ chat_groups = Groups
  /\ contact_groups = {}
  /\ group_members = {}
  /\ last = Req("none", NoUser)
  /\ \E g \in {x \in Groups : x.id = "g1"} :
       \E S1, S2 \in SUBSET OwnIds(g.owner_id) :
         dialog = [d \in Dialogs |->
                     IF d = "d1" THEN Ready(g.id, g.group_name, S1)
                     ELSE Ready(g.id, g.group_name, S2)]
  /\ page = NoPage
  /\ inflight = {}

NextTwoDialogs ==
  \E d \in Dialogs :
    \/ DlgSave(d)
    \/ DlgSaveRequest(d)
    \/ DlgSaveUpdate(d)
    \/ DlgSaveSelect(d)
    \/ DlgSaveDelete(d)
    \/ DlgSaveInsert(d)

SpecTwoDialogs == InitTwoDialogs /\ [][NextTwoDialogs]_vars

\* The contacts page of u1 alone, mounted (useEffect(() => { loadContacts();
\* }, []) has called loadContacts), on a store in which the contacts
\* 1 .. MaxIds + 1 have been created.
InitPage ==
  /\ contacts = {StoredContact(i) : i \in 1 .. MaxIds + 1}
  /\ nextId = MaxIds + 2
  /\ chat_groups = Groups
  /\ contact_groups = {}
  /\ group_members = {}
  /\ last = Req("none", NoUser)
  /\ dialog = [d \in Dialogs |-> Unmounted]
  /\ page = [NoPage EXCEPT
               !.mounted = TRUE,
               !.procs = <<[NoProc EXCEPT !.kind = "mount", !.pc = "loading"]>>]
  /\ inflight = {}

NextPage ==
  \/ PageStatement
  \/ PageLoadContacts
  \/ PageDeleteContact
  \/ PageDeleteAnswered
  \/ PageAddContact
  \/ PageEditContact
  \/ PageSetForm
  \/ PageCloseForm
  \/ PageSaveContact
  \/ PageSaveAnswered

SpecPage == InitPage /\ [][NextPage]_vars

\* ------------------------------------------------------------------ properties

Reads == {"list", "get", "search"}

\* The rows of the store, before the last request, that its caller owned.
OwnBefore == {r \in last.before : r.owner_id = last.session}

\* The last request reached the database, which executed its statement.
Executed == last.session \in Users /\ ~last.fault /\ Len(last.trace) >= 2

\* C1: every contact returned by List, Get by id or Search belongs to the
\* caller of the request: no contact of another owner appears in a response.
C1_ReadIsolation ==
  last.kind \in Reads =>
    \A i \in DOMAIN last.contacts :
      /\ last.contacts[i].owner_id = last.session
      /\ last.contacts[i] \in contacts

C1_Witness ==
  /\ last.kind \in Reads /\ last.status = 200 /\ last.contacts # <<>>
  /\ \E r \in contacts : r.owner_id # last.session

\* C2: an Update or Delete leaves every contact owned by another account
\* exactly as it was.
C2_WriteIsolation ==
  last.kind \in {"update", "delete"} =>
    /\ \A r \in last.before : r.owner_id # last.session => r \in contacts
    /\ \A r \in contacts : r.owner_id # last.session => r \in last.before

C2_Witness ==
  /\ last.kind \in {"update", "delete"} /\ Executed /\ last.status = 200
  /\ \E r \in last.before : r.id = last.id /\ r.owner_id # last.session

\* C3: a row created by Create is owned by the authenticated caller, whatever
\* the request body contains.
C3_CreateOwner ==
  last.kind = "create" =>
    /\ \A r \in contacts \ last.before : r.owner_id = last.session
    /\ last.status = 200 =>
         /\ contacts \ last.before = {last.contacts[1]}
         /\ last.contacts[1].owner_id = last.session

C3_Witness ==
  /\ last.kind = "create" /\ last.status = 200
  /\ last.body.owner_id \in Users \ {last.session}
  /\ contacts # last.before

\* A Create whose required fields passed validation and whose statement the
\* database executed.
ValidCreate ==
  /\ last.kind = "create" /\ Executed
  /\ ~Falsy(last.body.phoneNumber) /\ ~Falsy(last.body.customName)

\* C4: a Create with a phone number the caller already has (compared after
\* trimming) answers 409 and leaves the store unchanged; with a phone number
\* only other owners have it succeeds; no two contacts ever share
\* (owner, phone number).
C4_UniquePhone ==
  /\ \A r1, r2 \in contacts :
       (r1.owner_id = r2.owner_id /\ r1.phone_number = r2.phone_number) => r1 = r2
  /\ ValidCreate =>
       IF \E r \in OwnBefore : r.phone_number = Trim(last.body.phoneNumber)
       THEN last.status = 409 /\ contacts = last.before
       ELSE /\ last.status = 200
            /\ \E r \in contacts \ last.before :
                 /\ r.owner_id = last.session
                 /\ r.phone_number = Trim(last.body.phoneNumber)

C4_Witness ==
  /\ ValidCreate /\ last.status = 409
  /\ last.body.phoneNumber # Trim(last.body.phoneNumber)
  /\ \E r1, r2 \in contacts :
       r1.owner_id # r2.owner_id /\ r1.phone_number = r2.phone_number

\* C5: an Update leaves the phone number and the owner of every contact as
\* they were, whatever the request body contains.
C5_UpdateKeepsPhoneAndOwner ==
  last.kind = "update" =>
    /\ {r.id : r \in contacts} = {r.id : r \in last.before}
    /\ \A r \in last.before, n \in contacts :
         r.id = n.id =>
           n.phone_number = r.phone_number /\ n.owner_id = r.owner_id

C5_Witness ==
  /\ last.kind = "update" /\ last.status = 200
  /\ contacts # last.before
  /\ last.body.owner_id \in Users \ {last.session}
  /\ last.body.phoneNumber # Null
  /\ \E r \in last.before :
       r.id = last.id /\ r.phone_number # Trim(last.body.phoneNumber)

Kinds ==
  {"list", "create", "get", "update", "delete", "search", "members",
   "addMembers", "removeMember"}

\* The accesses to the tables in the trace of the last request.
TableAccesses ==
  {i \in DOMAIN last.trace : last.trace[i] # "auth.getUser"}

\* C6: in every contacts and group-membership handler a request without a
\* valid session is answered 401, and the handler reads and writes no table
\* for it; in every request the authentication check is the first access.
C6_AuthFirst ==
  last.kind \in Kinds =>
    /\ Len(last.trace) >= 1 /\ last.trace[1] = "auth.getUser"
    /\ \A i \in TableAccesses : i > 1
    /\ (last.status = 401) = (last.session \notin Users)
    /\ last.session \notin Users =>
         /\ TableAccesses = {}
         /\ last.contacts = <<>> /\ last.members = {}
         /\ contacts = last.before
         /\ contact_groups = last.beforeGroups.contact_groups
         /\ group_members = last.beforeGroups.group_members

C6_Witness ==
  /\ last.kind \in {"create", "delete", "addMembers"}
  /\ last.session \notin Users /\ last.status = 401
  /\ group_members # {} /\ inflight # {}

OptionalStrings ==
  {"whatsapp_name", "email", "company", "position", "address", "notes"}

\* The row a Create or Update that answered 200 wrote.
Written == last.contacts[1]

\* C11: every optional string column of every stored contact is NULL or a
\* non-empty string without leading or trailing white space; a Create or
\* Update stores the tags of the body when they are a list and NULL otherwise.
C11_OptionalNormalised ==
  /\ \A r \in contacts : \A c \in OptionalStrings :
       r[c] = Null \/ (r[c] # <<>> /\ Trim(r[c]) = r[c])
  /\ (last.kind \in {"create", "update"} /\ last.status = 200) =>
       /\ Written \in contacts
       /\ Written.tags = IF last.body.tags \in {Null, NotAList} THEN Null
                         ELSE last.body.tags
       /\ Written.notes = IF last.body.notes = Null \/ Trim(last.body.notes) = <<>>
                          THEN Null ELSE Trim(last.body.notes)

C11_Witness ==
  /\ last.kind = "update" /\ last.status = 200
  /\ last.body.notes = <<" ">> /\ last.body.tags = <<>>
  /\ \E r \in last.before :
       r.id = last.id /\ r.tags # Null /\ r.tags # <<>>
       /\ r.whatsapp_name # Null

\* q is a substring of the column, letter case ignored.
IsSubstring(col, q) ==
  /\ col # Null
  /\ \E i \in 1 .. (Len(col) - Len(q) + 1) :
       SubSeq(Lower(col), i, i + Len(q) - 1) = Lower(q)

\* The rows of a response, in order of custom name and each row once.
OrderedRows ==
  /\ \A i, j \in DOMAIN last.contacts :
       i < j => last.contacts[i] # last.contacts[j]
  /\ \E coll \in Collations :
       \A i, j \in DOMAIN last.contacts :
         i < j => NameLeq(coll, last.contacts[i].custom_name,
                          last.contacts[j].custom_name)
  /\ last.count = Len(last.contacts)

\* C12 (as claimed): Search returns exactly the caller's contacts of which q is
\* a case-insensitive substring of one of the five searched columns (or q is
\* empty) and whose tags hold the tag exactly (or no tag is given), ordered by
\* custom name, with count the number of contacts returned.
C12_SearchExact ==
  (last.kind = "search" /\ Executed) =>
    /\ last.status = 200
    /\ {last.contacts[i] : i \in DOMAIN last.contacts} =
         {r \in OwnBefore :
            /\ \/ last.q = <<>>
               \/ IsSubstring(r.custom_name, last.q)
               \/ IsSubstring(r.whatsapp_name, last.q)
               \/ IsSubstring(r.phone_number, last.q)
               \/ IsSubstring(r.email, last.q)
               \/ IsSubstring(r.company, last.q)
            /\ \/ last.tag = NoTag
               \/ r.tags # Null /\ \E i \in DOMAIN r.tags : r.tags[i] = last.tag}
    /\ OrderedRows

\* C13: List returns exactly the contacts the caller owns, each once, ordered by
\* custom name ascending with nulls last, and count is the number returned.
C13_ListExact ==
  (last.kind = "list" /\ Executed) =>
    /\ last.status = 200
    /\ {last.contacts[i] : i \in DOMAIN last.contacts} = OwnBefore
    /\ OrderedRows

\* A list of two contacts whose order of names is not their order of creation,
\* while the other user has a contact too.
C13_Witness ==
  /\ last.kind = "list" /\ Executed /\ last.status = 200
  /\ Len(last.contacts) = 2
  /\ last.contacts[1].id > last.contacts[2].id
  /\ last.contacts[1].custom_name # last.contacts[2].custom_name
  /\ last.count = 2

\* The membership rows before the last statement.
MembersBefore == last.beforeGroups.contact_groups

\* C14: every membership row references an existing contact and an existing
\* group; deleting a contact or a group removes exactly the membership rows
\* that reference it.
C14_ReferentialIntegrity ==
  /\ \A m \in contact_groups :
       /\ \E r \in contacts : r.id = m.contact_id
       /\ \E g \in chat_groups : g.id = m.group_id
  /\ (last.kind = "delete" /\ last.status = 200) =>
       contact_groups =
         {m \in MembersBefore :
            m.contact_id = last.id => \E r \in contacts : r.id = last.id}
  /\ last.kind = "deleteGroup" =>
       /\ ~\E g \in chat_groups : g.id = last.group
       /\ contact_groups = {m \in MembersBefore : m.group_id # last.group}

\* A contact that was a member of a group is deleted, after a group has been
\* deleted.
C14_Witness ==
  /\ last.kind = "delete" /\ last.status = 200
  /\ \E m \in MembersBefore : m.contact_id = last.id
  /\ ~\E r \in contacts : r.id = last.id
  /\ Cardinality(chat_groups) = 1

\* C15: there is at most one membership row for a pair of contact and group,
\* whatever statements the sessions issue in whatever order; an insert naming
\* a pair that is already there, or one pair twice, stores nothing.
C15_OnePerPair ==
  /\ \A m1, m2 \in contact_groups :
       (m1.contact_id = m2.contact_id /\ m1.group_id = m2.group_id) => m1 = m2
  /\ (last.kind = "insertMemberships" /\ last.error = "23505") =>
       contact_groups = MembersBefore

\* An insert of a pair that another statement has stored is refused.
C15_Witness ==
  /\ last.kind = "insertMemberships" /\ last.error = "23505"
  /\ \E m \in MembersBefore :
       m.group_id = last.group /\ m.contact_id = last.userIds[1]

\* C18: a membership row is inserted only by the owner of both its contact and
\* its group, so the contact and the group of every row have one owner, and
\* only that owner reads or deletes the row.
C18_SameOwner ==
  LET Owns(u, m) ==
        /\ \E r \in contacts : r.id = m.contact_id /\ r.owner_id = u
        /\ \E g \in chat_groups : g.id = m.group_id /\ g.owner_id = u
  IN /\ \A m \in contact_groups : \E u \in Users : Owns(u, m)
     /\ last.kind = "insertMemberships" =>
          \A m \in contact_groups \ MembersBefore : Owns(last.session, m)
     /\ last.kind = "selectMemberships" =>
          \A m \in last.members : Owns(last.session, m)
     /\ last.kind = "deleteMemberships" =>
          \A m \in MembersBefore \ contact_groups : Owns(last.session, m)

\* u1 tries to add a contact of u2 to the group it owns, while u2 has a
\* membership of its own.
C18_Witness ==
  /\ last.kind = "insertMemberships" /\ last.error = "42501"
  /\ last.session = "u1" /\ last.group = "g1" /\ last.userIds = <<1, 2>>
  /\ \E m \in contact_groups : m.contact_id = 2 /\ m.group_id = "g2"

\* C16 (as claimed): an Add members request on a group of the caller succeeds
\* also when identifiers of its list are members of the group already: the
\* answer is 200, the pairs that were there stay as they are and the others
\* are inserted.
C16_AddIgnoresDuplicates ==
  ( /\ last.kind = "addMembers" /\ ~last.fault /\ Len(last.trace) = 3
    /\ \E i \in DOMAIN last.userIds :
         [group_id |-> last.group, user_id |-> last.userIds[i]] \in
           last.beforeGroups.group_members ) =>
    /\ last.status = 200
    /\ group_members =
         last.beforeGroups.group_members \cup
           {[group_id |-> last.group, user_id |-> last.userIds[i]] :
              i \in DOMAIN last.userIds}

\* A group-membership request of a signed-in caller for a group that is absent
\* or owned by someone else when the request looks it up.
NotOwnedGroupRequest ==
  /\ last.kind \in {"members", "addMembers", "removeMember"}
  /\ last.session \in Users
  /\ ~\E g \in last.groups : g.id = last.group /\ g.owner_id = last.session

\* The accesses to the membership tables in the trace of the last request.
MembershipAccesses ==
  {i \in DOMAIN last.trace :
     last.trace[i] \notin {"auth.getUser", "chat_groups.select"}}

\* The request left the membership tables as they were and returned no member.
NoMembershipEffect ==
  /\ MembershipAccesses = {}
  /\ last.members = {}
  /\ group_members = last.beforeGroups.group_members
  /\ contact_groups = last.beforeGroups.contact_groups

\* C17 (as claimed): List, Add and Remove for a group that is absent or not the
\* caller's answer 404 and read, insert and delete no membership row.
C17_NotOwned404 ==
  NotOwnedGroupRequest => (last.status = 404 /\ NoMembershipEffect)

\* An Add without a non-empty list of ids, a Remove without an id.
FailsValidation ==
  \/ last.kind = "addMembers" /\ (last.userIds = NoUserIds \/ last.userIds = <<>>)
  \/ last.kind = "removeMember" /\ last.id = NoId

\* C17 (amended): such a request is answered 404, or 400 when it is an Add
\* without a non-empty list of ids or a Remove without an id (these are
\* refused before the group is looked up); either way no membership row is
\* read, inserted or deleted, and in every request the ownership check comes
\* before any membership operation.
C17_NotOwned404IfValid ==
  /\ NotOwnedGroupRequest =>
       /\ last.status = IF FailsValidation THEN 400 ELSE 404
       /\ NoMembershipEffect
  /\ last.kind \in {"members", "addMembers", "removeMember"} =>
       \A i \in MembershipAccesses :
         /\ \E j \in 1 .. i - 1 : last.trace[j] = "chat_groups.select"
         /\ \E g \in last.groups : g.id = last.group /\ g.owner_id = last.session

\* u1 asks to add a member to the group of u2, which has a member.
C17_Witness ==
  /\ last.kind = "addMembers" /\ last.session = "u1" /\ last.group = "g2"
  /\ last.userIds = <<1>> /\ last.status = 404
  /\ \E m \in group_members : m.group_id = "g2"

\* C19 (as claimed): every request gets one response; a request in which a
\* database statement fails is answered 500; no statement is issued twice in
\* a request.
C19_FailuresAre500 ==
  last.kind \in Kinds =>
    /\ last.status \in {200, 400, 401, 404, 409, 500}
    /\ last.fault => last.status = 500
    /\ \A i, j \in DOMAIN last.trace : i # j => last.trace[i] # last.trace[j]

\* The requests of kind op among those the save of dialog d has issued.
Issued(d, op) == {i \in DOMAIN dialog[d].ops : dialog[d].ops[i].op = op}

\* The save of dialog d is an edit-mode save that has read the members of its
\* group.
EditSaveRead(d) == dialog[d].save.group # NoGroup /\ Issued(d, "select") # {}

\* C20 (as claimed): in an edit-mode save started with the selection S, of a
\* group that has the members M when the save reads them, a delete is issued
\* for exactly M \ S and an insert for exactly S \ M, each at most once and
\* not at all when its set is empty; no operation names a contact of
\* M \cap S and the two sets are disjoint.
C20_DeltaOnly ==
  \A d \in Dialogs :
    \A k \in Issued(d, "select") :
      LET r == dialog[d]
          M == r.ops[k].ids
          S == r.save.selectedUserIds
      IN EditSaveRead(d) =>
           /\ \A i \in Issued(d, "delete") : r.ops[i].ids = M \ S /\ M \ S # {}
           /\ \A i \in Issued(d, "insert") : r.ops[i].ids = S \ M /\ S \ M # {}
           /\ \A i \in Issued(d, "delete") \cup Issued(d, "insert") :
                r.ops[i].ids \cap (M \cap S) = {}
           /\ \A i \in Issued(d, "delete"), j \in Issued(d, "insert") :
                r.ops[i].ids \cap r.ops[j].ids = {}
           /\ Cardinality(Issued(d, "delete")) <= 1
           /\ Cardinality(Issued(d, "insert")) <= 1
           /\ Issued(d, "POST") = {}
           /\ r.pc = "idle" =>
                /\ (Issued(d, "delete") # {}) = (M \ S # {})
                /\ (Issued(d, "insert") # {}) = (S \ M # {})

\* The contacts that are members of group g.
MembersOf(g) == {m.contact_id : m \in {x \in contact_groups : x.group_id = g}}

\* The save of dialog d has returned after calling onGroupSaved and onClose.
SaveDone(d) == dialog[d].pc = "idle" /\ dialog[d].onGroupSaved

\* Every request the save of dialog d issued has succeeded.
AllSucceeded(d) == \A i \in DOMAIN dialog[d].ops : dialog[d].ops[i].ok

\* C21: after an edit-mode save of which every request succeeded, with no
\* other session changing the group meanwhile, the members of the group are
\* the selection the save was started with, whatever the user has ticked
\* and whichever load has been answered while the save was in flight.
C21_MembersBecomeSelection ==
  \A d \in Dialogs :
    (EditSaveRead(d) /\ SaveDone(d) /\ AllSucceeded(d)) =>
      MembersOf(dialog[d].save.group) = dialog[d].save.selectedUserIds

\* A save that succeeded in all its requests, removed a member and added a
\* contact, while the selection of the dialog changed under it.
C21_Witness ==
  LET r == dialog["d1"]
  IN /\ EditSaveRead("d1") /\ SaveDone("d1") /\ AllSucceeded("d1")
     /\ Len(r.ops) = 4
     /\ r.save.toRemove # {} /\ r.save.toAdd # {}
     /\ r.selectedUserIds # r.save.selectedUserIds

\* The name is empty or all spaces.
Blank(name) == \A i \in DOMAIN name : IsSpace(name[i])

\* What C22 says of a step of dialog d.
RefusedOrCreated(d) ==
  LET r       == dialog[d]
      n       == dialog'[d]
      invalid == Blank(r.name) \/ r.selectedUserIds = {}
  IN /\ (DlgSave(d) /\ invalid) =>
          /\ n.error \in {"Group name is required",
                          "Please select at least one member"}
          /\ ~n.isSaving /\ n.pc = "idle" /\ n.ops = <<>>
          /\ ~n.onGroupSaved /\ ~n.onClose /\ n.isOpen
          /\ UNCHANGED <<contacts, chat_groups, contact_groups, group_members>>
     /\ (n.isSaving /\ ~r.isSaving) => ~invalid
     /\ (n.ops # <<>> /\ n.save.group = NoGroup) =>
          /\ Len(n.ops) = 1
          /\ n.ops[1].op = "POST"
          /\ n.ops[1].ids = n.save.selectedUserIds
          /\ n.ops[1].ids # {}
     /\ (r.pc = "create" /\ n.pc = "idle") => Len(n.ops) = 1

\* C22: a save with a name that is empty after trimming or with nothing
\* selected issues no request, sets an error message, does not enter the saving
\* state and calls neither onGroupSaved nor onClose; a valid save in create
\* mode issues one creation request with the whole selection and no
\* membership operation.
C22_InvalidSaveRefused == [][\A d \in Dialogs : RefusedOrCreated(d)]_vars

\* A save with a name of spaces and a contact selected has been refused.
C22_Witness ==
  LET r == dialog["d1"]
  IN /\ r.error = "Group name is required" /\ r.name = <<" ">>
     /\ r.selectedUserIds # {} /\ r.ops = <<>> /\ ~r.isSaving /\ r.isOpen

\* How far a save has come.
PcRank(pc) ==
  IF pc = "update" \/ pc = "create" THEN 1
  ELSE IF pc = "select" THEN 2
  ELSE IF pc = "delete" THEN 3
  ELSE IF pc = "insert" THEN 4
  ELSE 5

\* What C23 says of a step of dialog d: the flag is set exactly while
\* handleSave stands at an await; handleSave is entered only while the flag
\* is clear; a request of a save is executed and answered only while the
\* flag is set; and whatever else happens to the dialog while a save is in
\* flight, that save goes on with what it was started with, from one request
\* to the next, each request issued once.
SavingWhileInFlight(d) ==
  LET r == dialog[d]
      n == dialog'[d]
  IN /\ n.isSaving = (n.pc # "idle")
     /\ SaveDisabled(n) = (n.pc # "idle")
     /\ DlgSave(d) => r.pc = "idle"
     /\ Len(n.ops) > Len(r.ops) => r.isSaving
     /\ DlgSaveRequest(d) => r.isSaving /\ n.isSaving /\ n.pc = r.pc
     /\ r.pc # "idle" =>
          /\ PcRank(n.pc) >= PcRank(r.pc)
          /\ n.pc # r.pc => Len(n.ops) = Len(r.ops) + 1
          /\ n.save.group = r.save.group
          /\ n.save.name = r.save.name
          /\ n.save.selectedUserIds = r.save.selectedUserIds
          /\ SubSeq(n.ops, 1, Len(r.ops)) = r.ops
     /\ \A op \in {"PUT", "select", "delete", "insert", "POST"} :
          Cardinality({i \in DOMAIN n.ops : n.ops[i].op = op}) <= 1

\* C23: the saving flag of a dialog, which disables its save button, is set
\* exactly while a save is in flight: from before the first request until the
\* save returns, by success or by failure; no second save of the dialog starts
\* meanwhile.
C23_OneSaveInFlight == [][\A d \in Dialogs : SavingWhileInFlight(d)]_vars

\* A save that failed has returned and left the button enabled.
C23_Witness ==
  LET r == dialog["d1"]
  IN /\ r.error = "Failed to update group" /\ r.ops # <<>>
     /\ ~r.isSaving /\ r.pc = "idle" /\ r.isOpen

\* C24 (as claimed): when a request of a save has failed, the save ends with an
\* error message shown, the dialog open, and neither onGroupSaved nor onClose
\* called.
C24_FailureShown ==
  \A d \in Dialogs :
    LET r == dialog[d]
    IN (r.pc = "idle" /\ ~AllSucceeded(d)) =>
         /\ r.error # NoMessage
         /\ r.isOpen
         /\ ~r.onGroupSaved /\ ~r.onClose

\* The ids named by the requests of kind op of dialog d that succeeded.
Applied(d, op) ==
  UNION {dialog[d].ops[i].ids : i \in {j \in Issued(d, op) : dialog[d].ops[j].ok}}

\* The name of group g in chat_groups.
NameOf(g) == (CHOOSE x \in chat_groups : x.id = g).group_name

\* C25: an edit-mode save is not atomic. What each of its requests did stays
\* when a later one fails: after the save the group has the new name, and its
\* members are those it had at the read, less the removals if the delete
\* succeeded, plus the additions if the insert succeeded; so a failure after the
\* update leaves the group renamed with members that are not the selection.
C25_StepsStay ==
  \A d \in Dialogs :
    LET r == dialog[d]
    IN (EditSaveRead(d) /\ r.pc = "idle") =>
         /\ NameOf(r.save.group) = r.save.name
         /\ \A i \in Issued(d, "select") :
              MembersOf(r.save.group) =
                (r.ops[i].ids \ Applied(d, "delete")) \cup Applied(d, "insert")

\* A save renamed the group and removed a member, its insert failed: the
\* removal is applied without the addition.
C25_Witness ==
  LET r == dialog["d1"]
  IN /\ EditSaveRead("d1") /\ r.pc = "idle"
     /\ r.save.name = <<"h">> /\ NameOf(r.save.group) = <<"h">>
     /\ Applied("d1", "delete") # {}
     /\ Issued("d1", "insert") # {} /\ Applied("d1", "insert") = {}
     /\ MembersOf(r.save.group) # r.save.selectedUserIds
     /\ MembersOf(r.save.group) = r.save.currentMemberIds \ r.save.toRemove

\* The contacts the local list of the page shows.
Listed == {page.contacts[i] : i \in DOMAIN page.contacts}

\* A delete handler beside which no other handler has run and no other event
\* has set the error.
Alone(p) == p.kind = "delete" /\ p.alone

\* Such a handler that was called on a list that held the caller's contacts
\* of the server.
Undisturbed(p) == Alone(p) /\ p.synced

\* What a delete handler p that has returned leaves: the local list holds
\* exactly the caller's contacts on the server, each once; after a
\* successful delete the handler has issued the delete alone, no error is
\* shown and the contact is in neither list; after a failed delete an error
\* is shown and the list has been reloaded.
LeftInStep(p) ==
  /\ Listed = VisibleContacts(PageSession)
  /\ Len(page.contacts) = Cardinality(Listed)
  /\ p.ops # <<>> =>
       /\ p.ops[1].op = "delete"
       /\ p.ops[1].ok =>
            /\ Len(p.ops) = 1
            /\ page.error = NoMessage
            /\ \A c \in Listed \cup contacts : c.id # p.contactId
       /\ ~p.ops[1].ok =>
            /\ Len(p.ops) = 2
            /\ p.ops[2].op = "select"
            /\ page.error # NoMessage

\* C26 (as claimed): on the contacts page the contact of a running delete
\* handler stays in the local list until the delete has answered without an
\* error; a handler that has returned after a failed delete shows an error
\* and has reloaded the list, and whenever a handler has returned, nothing
\* else having run beside it, the local list holds exactly the caller's
\* contacts on the server.
C26_ListEqualsServer ==
  /\ \A i \in DOMAIN page.procs :
       Alone(page.procs[i]) => \E c \in Listed : c.id = page.procs[i].contactId
  /\ Alone(page.done) => LeftInStep(page.done)

\* C26 (amended): the same of a handler that was called on a local list that
\* held exactly the caller's contacts on the server; a list that an earlier
\* failed load has left behind the server stays behind it after a
\* successful delete, which does not reload.
C26_ListFollowsServer ==
  /\ \A i \in DOMAIN page.procs :
       Alone(page.procs[i]) => \E c \in Listed : c.id = page.procs[i].contactId
  /\ Undisturbed(page.done) => LeftInStep(page.done)

\* C26 witness: a delete that failed, followed by a reload that succeeded,
\* leaves the contact in both lists with the error shown.
C26_Witness ==
  /\ Undisturbed(page.done)
  /\ Len(page.done.ops) = 2
  /\ ~page.done.ops[1].ok
  /\ page.done.ops[2].ok
  /\ page.error = "Failed to delete contact: Unknown error"
  /\ \E c \in Listed : c.id = page.done.contactId
  /\ Cardinality(contacts) < MaxIds + 1

\* C27: a user a successful Add members stored for a group, and which no
\* Remove member has taken out since, has an entry in every successful List
\* members of that group.
C27_AddedAreListed ==
  (last.kind = "members" /\ last.status = 200) =>
    \A m \in group_members :
      m.group_id = last.group =>
        \E e \in last.members : e.member_id = m.user_id

\* The answer of a membership load for group g reaches dialog d in this step.
LoadAnswered(d, g) == Len(dialog'[d].loaded[g]) < Len(dialog[d].loaded[g])

\* C28: the answer of a membership load for a group other than the one the
\* dialog is now supplied with (another group, or none in create mode) leaves
\* the selection as it is.
C28_StaleLoadIgnored ==
  [][\A d \in Dialogs : \A g \in GroupIds :
       (LoadAnswered(d, g) /\ g # dialog[d].group) =>
         dialog'[d].selectedUserIds = dialog[d].selectedUserIds]_vars

\* C29: when two dialogs have each completed an edit-mode save of the same
\* group, every request of both having succeeded, the members of the group
\* are the selection of one of the two saves.
C29_Serialisable ==
  ( /\ \A d \in Dialogs : EditSaveRead(d) /\ SaveDone(d) /\ AllSucceeded(d)
    /\ dialog["d1"].save.group = dialog["d2"].save.group ) =>
    \E d \in Dialogs :
      MembersOf(dialog[d].save.group) = dialog[d].save.selectedUserIds

\* C7: Get by id answers 200 with the contact when the caller owns a contact
\* of that id, and 404 when there is none or it belongs to another account.
C7_GetById ==
  (last.kind = "get" /\ Executed) =>
    LET own == {r \in OwnBefore : r.id = last.id}
    IN IF own # {}
       THEN last.status = 200 /\ last.contacts = One(own)
       ELSE last.status = 404 /\ last.contacts = <<>>

C7_Witness ==
  /\ last.kind = "get" /\ Executed /\ last.status = 404
  /\ \E r \in contacts : r.id = last.id /\ r.owner_id # last.session

\* C8 (as claimed): an Update with a valid name for an id that matches no
\* contact of the caller answers 404 and changes no row.
C8_UpdateNotFound ==
  ( /\ last.kind = "update" /\ Executed
    /\ ~Falsy(last.body.customName)
    /\ ~\E r \in OwnBefore : r.id = last.id )
  => (last.status = 404 /\ contacts = last.before)

\* C9 (as claimed): Delete removes the caller's contact of that id, and
\* answers 404 when the caller has no contact of that id.
C9_DeleteNotFound ==
  (last.kind = "delete" /\ Executed) =>
    IF \E r \in OwnBefore : r.id = last.id
    THEN /\ last.status = 200
         /\ contacts = {r \in last.before : r.id # last.id}
    ELSE last.status = 404 /\ contacts = last.before

\* C10 (as claimed): a Create or Update with a missing or empty required field
\* answers 400 and writes nothing, and every stored custom name and phone
\* number is non-empty.
C10_RequiredNonEmpty ==
  /\ \A r \in contacts : r.custom_name # <<>> /\ r.phone_number # <<>>
  /\ ( /\ last.kind \in {"create", "update"} /\ last.session \in Users
       /\ \/ Falsy(last.body.customName)
          \/ last.kind = "create" /\ Falsy(last.body.phoneNumber) )
     => (last.status = 400 /\ contacts = last.before)

====
